---------------------------- MODULE Spec2Model ----------------------------
(***************************************************************************)
(* A model of the gelix semantic-analysis core (gelixrs):                  *)
(*   - the GIR type model: Type::equal, Hash, type_args/type_params,       *)
(*     set_type_args and Type::resolve (crates/gir-nodes/src/types.rs);    *)
(*   - the resolver's casts: try_cast and try_unify_type                   *)
(*     (crates/gir-generator/src/resolver.rs);                             *)
(*   - the pass driver run_passes (crates/gir-generator/src/passes/mod.rs) *)
(*     with the field pass build_adt (src/gir/generator/passes/fields.rs). *)
(*                                                                         *)
(* Types are records with a "tag" naming the enum variant and the payload  *)
(* of that variant.  Declarations are named by identifiers; an identifier  *)
(* stands for the Rc pointer of the declaration, so Rc::ptr_eq is          *)
(* equality of identifiers.                                                *)
(***************************************************************************)
EXTENDS Integers, Sequences, FiniteSets, TLC

(***************************************************************************)
(* Bounds of the model.                                                    *)
(***************************************************************************)
\* number of modules handed to the pass driver
NumModules == 2
\* largest number of members an ADT of the sample program declares
MaxMembers == 2
\* how many Nullable / RawPtr / Type wrappers are put around an input type
MaxWrap == 1

(***************************************************************************)
(* Sequence helpers.                                                       *)
(***************************************************************************)
RECURSIVE FlattenSeq(_)
FlattenSeq(ss) == IF ss = <<>> THEN <<>> ELSE Head(ss) \o FlattenSeq(Tail(ss))

SeqRange(s) == {s[i] : i \in 1..Len(s)}

(***************************************************************************)
(* Type: the variants of gir_nodes::types::Type.                           *)
(***************************************************************************)
PrimitiveTags == {"Any", "None", "Null", "Bool", "I8", "I16", "I32", "I64",
                  "U8", "U16", "U32", "U64", "F32", "F64"}

Prim(tag) == [tag |-> tag]
TAny == Prim("Any")
TNone == Prim("None")
TNull == Prim("Null")
TBool == Prim("Bool")
TI32 == Prim("I32")
TI64 == Prim("I64")
TF64 == Prim("F64")

Instance(d, args) == [ty |-> d, args |-> args]
Function(d, args) == [tag |-> "Function", inst |-> Instance(d, args)]
Adt(d, args) == [tag |-> "Adt", inst |-> Instance(d, args)]
Nullable(t) == [tag |-> "Nullable", inner |-> t]
RawPtr(t) == [tag |-> "RawPtr", inner |-> t]
TypeOf(t) == [tag |-> "Type", inner |-> t]
Closure(params, ret, ir) ==
    [tag |-> "Closure", cls |-> [parameters |-> params, ret_type |-> ret, ir |-> ir]]
LocalVariable(name, t, mutable) == [name |-> name, ty |-> t, mutable |-> mutable]
ClosureCaptured(locals) == [tag |-> "ClosureCaptured", cap |-> locals]

\* TypeParameterBound
MarkerBound(b) == [kind |-> "Bound", marker |-> b]
InterfaceBound(t) == [kind |-> "Interface", iface |-> t]
TypeVariable(index, name, bound) == [index |-> index, name |-> name, bound |-> bound]
Variable(index, name, bound) ==
    [tag |-> "Variable", var |-> TypeVariable(index, name, bound)]
TypeParameter(name, index, bound) == [name |-> name, index |-> index, bound |-> bound]

Bounds == {"Unbounded", "Primitive", "Number", "Integer", "SignedInt",
           "UnsignedInt", "Float", "Adt", "Nullable"}

(***************************************************************************)
(* The declarations of the sample program: ADTs of every ADTType and one   *)
(* function.  parent is the enum an EnumCase belongs to; an enum case      *)
(* shares the type parameters of its parent (ADT::enum_case).              *)
(***************************************************************************)
ParamT == <<TypeParameter("T", 0, MarkerBound("Unbounded"))>>

Declaration(name, kind, parent, params) ==
    [name |-> name, kind |-> kind, parent |-> parent, type_parameters |-> params]

DeclIds == {"E", "A", "B", "E2", "C", "G", "GA", "GB", "Foo", "Box", "I", "f"}

Decls ==
    [d \in DeclIds |->
        CASE d = "E"   -> Declaration("E", "Enum", "", <<>>)
          [] d = "A"   -> Declaration("A", "EnumCase", "E", <<>>)
          [] d = "B"   -> Declaration("B", "EnumCase", "E", <<>>)
          [] d = "E2"  -> Declaration("E2", "Enum", "", <<>>)
          [] d = "C"   -> Declaration("C", "EnumCase", "E2", <<>>)
          [] d = "G"   -> Declaration("G", "Enum", "", ParamT)
          [] d = "GA"  -> Declaration("GA", "EnumCase", "G", ParamT)
          [] d = "GB"  -> Declaration("GB", "EnumCase", "G", ParamT)
          [] d = "Foo" -> Declaration("Foo", "Class", "", <<>>)
          [] d = "Box" -> Declaration("Box", "Class", "", ParamT)
          [] d = "I"   -> Declaration("I", "Interface", "", <<>>)
          [] d = "f"   -> Declaration("f", "Function", "", <<>>)]

(***************************************************************************)
(* Type::equal and the == of Type, Instance, ClosureType.                  *)
(***************************************************************************)
RECURSIVE equal(_, _, _)
RECURSIVE VecEq(_, _)

\* == of Vec<Type>: same length and element-wise ==
VecEq(a, b) ==
    /\ Len(a) = Len(b)
    /\ \A i \in 1..Len(a) : equal(a[i], b[i], TRUE)

\* impl PartialEq for Instance<T>.  (== on the Rc of the argument list also
\* holds of two handles to one allocation without comparing the elements;
\* that differs from VecEq only for a list with Any in it, and no instance
\* of the model has one.)
InstanceEq(a, b) == a.ty = b.ty /\ VecEq(a.args, b.args)

\* derived PartialEq of ClosureType
ClosureTypeEq(a, b) ==
    /\ VecEq(a.parameters, b.parameters)
    /\ equal(a.ret_type, b.ret_type, TRUE)
    /\ a.ir = b.ir

equal(self, other, strict) ==
    IF self.tag = "Any" \/ other.tag = "Any" THEN ~strict
    ELSE IF self.tag = "Function" /\ other.tag = "Function"
         THEN InstanceEq(self.inst, other.inst)
    ELSE IF self.tag = "Closure" /\ other.tag = "Closure"
         THEN ClosureTypeEq(self.cls, other.cls)
    ELSE IF self.tag = "Adt" /\ other.tag = "Adt"
         THEN InstanceEq(self.inst, other.inst)
    ELSE IF self.tag = "Nullable" /\ other.tag = "Nullable"
         THEN equal(self.inner, other.inner, TRUE)
    ELSE IF self.tag = "Type" /\ other.tag = "Type"
         THEN equal(self.inner, other.inner, TRUE)
    ELSE IF self.tag = "Variable" /\ other.tag = "Variable"
         THEN self.var.index = other.var.index
    ELSE IF self.tag = "RawPtr" /\ other.tag = "RawPtr"
         THEN equal(self.inner, other.inner, TRUE)
    ELSE self.tag = other.tag

\* impl PartialEq for Type
TypeEq(a, b) == equal(a, b, TRUE)

(***************************************************************************)
(* impl Hash for Type / Instance: the sequence of values written to the    *)
(* hasher.                                                                 *)
(***************************************************************************)
\* Hash of a declaration (its name)
DeclHash(d) == <<[name |-> Decls[d].name]>>

RECURSIVE TypeHash(_)
RECURSIVE VecHashAll(_)

\* hashing each element of a list in order
VecHashAll(ts) ==
    IF ts = <<>> THEN <<>> ELSE TypeHash(Head(ts)) \o VecHashAll(Tail(ts))

TypeHash(t) ==
    IF t.tag \in {"Function", "Adt"} THEN <<[name |-> Decls[t.inst.ty].name]>>
    ELSE IF t.tag \in {"Type", "RawPtr", "Nullable"} THEN TypeHash(t.inner)
    ELSE IF t.tag = "Closure"
         THEN VecHashAll(t.cls.parameters) \o TypeHash(t.cls.ret_type)
    ELSE IF t.tag = "ClosureCaptured"
         THEN VecHashAll([i \in 1..Len(t.cap) |-> t.cap[i].ty])
    ELSE IF t.tag = "Variable" THEN <<[index |-> t.var.index]>>
    ELSE <<[discriminant |-> t.tag]>>

\* impl Hash for Instance<T>; a Vec writes its length, then its elements
InstanceHash(inst) ==
    DeclHash(inst.ty) \o
    (IF inst.args = <<>> THEN <<>>
     ELSE <<[len |-> Len(inst.args)]>> \o VecHashAll(inst.args))

(***************************************************************************)
(* Option<T>: None and Some(v).                                            *)
(***************************************************************************)
NoneOpt == [some |-> FALSE]
Some(v) == [some |-> TRUE, val |-> v]

(***************************************************************************)
(* Type::type_args, Type::type_params, Type::set_type_args.                *)
(***************************************************************************)
RECURSIVE type_args(_)
type_args(t) ==
    IF t.tag \in {"Function", "Adt"} THEN Some(t.inst.args)
    ELSE IF t.tag \in {"Type", "RawPtr", "Nullable"} THEN type_args(t.inner)
    ELSE IF t.tag = "Variable" /\ t.var.bound.kind = "Interface"
         THEN type_args(t.var.bound.iface)
    ELSE NoneOpt

RECURSIVE type_params(_)
type_params(t) ==
    IF t.tag \in {"Function", "Adt"} THEN Some(Decls[t.inst.ty].type_parameters)
    ELSE IF t.tag \in {"Type", "RawPtr", "Nullable"} THEN type_params(t.inner)
    ELSE IF t.tag = "Variable" /\ t.var.bound.kind = "Interface"
         THEN type_params(t.var.bound.iface)
    ELSE NoneOpt

\* returns the type after the call and the success flag
RECURSIVE set_type_args(_, _)
set_type_args(t, args) ==
    IF t.tag \in {"Function", "Adt"}
    THEN [ty |-> [t EXCEPT !.inst.args = args], ok |-> TRUE]
    ELSE IF t.tag \in {"Type", "RawPtr", "Nullable"}
    THEN LET r == set_type_args(t.inner, args)
         IN  [ty |-> [t EXCEPT !.inner = r.ty], ok |-> r.ok]
    ELSE [ty |-> t, ok |-> FALSE]

(***************************************************************************)
(* Type::resolve.                                                          *)
(***************************************************************************)
\* the first step of resolve: replacing a type variable
Substitute(self, args) ==
    IF self.tag = "Variable" /\ self.var.index < Len(args)
    THEN args[self.var.index + 1]
    ELSE IF /\ self.tag = "RawPtr"
            /\ self.inner.tag = "Variable"
            /\ self.inner.var.index < Len(args)
    THEN RawPtr(args[self.inner.var.index + 1])
    ELSE IF /\ self.tag = "Nullable"
            /\ self.inner.tag = "Variable"
            /\ self.inner.var.index < Len(args)
    THEN Nullable(args[self.inner.var.index + 1])
    ELSE self

RECURSIVE resolve(_, _)

\* resolve attaching the given arguments to every instance of a declaration
\* with parameters, whether or not it has arguments already
resolve_attach_any(self, args) ==
    LET ty0 == Substitute(self, args)
        a   == type_args(ty0)
        ty1 == IF a.some
               THEN set_type_args(ty0,
                        [i \in 1..Len(a.val) |-> resolve(a.val[i], args)]).ty
               ELSE ty0
        sa  == type_args(self)
        sp  == type_params(self)
        attach == /\ sa.some
                  /\ (IF sp.some THEN sp.val # <<>> ELSE FALSE)
    IN  IF attach THEN set_type_args(ty1, args).ty ELSE ty1

\* resolve attaching the given arguments to every instance without
\* arguments, whether or not its declaration has parameters
resolve_attach_unparameterised(self, args) ==
    LET ty0 == Substitute(self, args)
        a   == type_args(ty0)
        ty1 == IF a.some
               THEN set_type_args(ty0,
                        [i \in 1..Len(a.val) |-> resolve(a.val[i], args)]).ty
               ELSE ty0
        sa  == type_args(self)
        attach == IF sa.some THEN sa.val = <<>> ELSE FALSE
    IN  IF attach THEN set_type_args(ty1, args).ty ELSE ty1

resolve(self, args) ==
    LET ty0 == Substitute(self, args)
        a   == type_args(ty0)
        ty1 == IF a.some
               THEN set_type_args(ty0,
                        [i \in 1..Len(a.val) |-> resolve(a.val[i], args)]).ty
               ELSE ty0
        sa  == type_args(self)
        sp  == type_params(self)
        attach == /\ (IF sa.some THEN sa.val = <<>> ELSE FALSE)
                  /\ (IF sp.some THEN sp.val # <<>> ELSE FALSE)
    IN  IF attach THEN set_type_args(ty1, args).ty ELSE ty1

(***************************************************************************)
(* Expressions, as far as casting needs them: a value of a type, and the   *)
(* cast node Expr::cast(inner, to, method).                                *)
(***************************************************************************)
Value(id, t) == [kind |-> "value", id |-> id, ty |-> t]
Cast(inner, to, method) == [kind |-> "cast", inner |-> inner, ty |-> to, method |-> method]
get_type(e) == e.ty

(***************************************************************************)
(* Type::is_nullable_of, Type::try_adt_nullable.                           *)
(***************************************************************************)
is_nullable_of(self, other) ==
    IF self.tag = "Nullable" THEN equal(other, self.inner, FALSE) ELSE FALSE

RECURSIVE try_adt_nullable(_)
try_adt_nullable(t) ==
    IF t.tag = "Adt" THEN Some(t.inst)
    ELSE IF t.tag = "Nullable" THEN try_adt_nullable(t.inner)
    ELSE NoneOpt

(***************************************************************************)
(* can_cast_type: the cast policy.  Its kinds: nullable widening, enum     *)
(* case to enum parent, reference ADT to an implemented interface, and     *)
(* numeric widening within a sign class.                                   *)
(***************************************************************************)
\* the interfaces the sample program's ADTs implement
Implements == {<<"Foo", "I">>}

SignedRank == [t \in {"I8", "I16", "I32", "I64"} |->
                 CASE t = "I8" -> 1 [] t = "I16" -> 2 [] t = "I32" -> 3 [] t = "I64" -> 4]
UnsignedRank == [t \in {"U8", "U16", "U32", "U64"} |->
                 CASE t = "U8" -> 1 [] t = "U16" -> 2 [] t = "U32" -> 3 [] t = "U64" -> 4]

NumericWidens(s, t) ==
    \/ s \in DOMAIN SignedRank /\ t \in DOMAIN SignedRank /\ SignedRank[s] < SignedRank[t]
    \/ s \in DOMAIN UnsignedRank /\ t \in DOMAIN UnsignedRank
         /\ UnsignedRank[s] < UnsignedRank[t]
    \/ s = "F32" /\ t = "F64"

can_cast_type(src, tgt) ==
    IF is_nullable_of(tgt, src) THEN Some("ToNullable")
    ELSE IF src.tag = "Null" /\ tgt.tag = "Nullable" THEN Some("ToNullable")
    ELSE IF /\ src.tag = "Adt" /\ tgt.tag = "Adt"
            /\ Decls[src.inst.ty].kind = "EnumCase"
            /\ Decls[src.inst.ty].parent = tgt.inst.ty
            /\ VecEq(src.inst.args, tgt.inst.args)
    THEN Some("EnumCaseToParent")
    ELSE IF /\ src.tag = "Adt" /\ tgt.tag = "Adt"
            /\ <<src.inst.ty, tgt.inst.ty>> \in Implements
    THEN Some("ToInterface")
    ELSE IF NumericWidens(src.tag, tgt.tag) THEN Some("NumericWiden")
    ELSE NoneOpt

(***************************************************************************)
(* GIRGenerator::try_cast and GIRGenerator::try_unify_type.                *)
(***************************************************************************)
\* try_cast comparing the types strictly
try_cast_strict(value, ty) ==
    LET val_ty == get_type(value)
    IN  IF equal(val_ty, ty, TRUE) THEN [expr |-> value, ok |-> TRUE]
        ELSE LET c == can_cast_type(val_ty, ty)
             IN  IF c.some THEN [expr |-> Cast(value, ty, c.val), ok |-> TRUE]
                 ELSE [expr |-> value, ok |-> FALSE]

\* returns the expression to use and the success flag
try_cast(value, ty) ==
    LET val_ty == get_type(value)
    IN  IF equal(val_ty, ty, FALSE) THEN [expr |-> value, ok |-> TRUE]
        ELSE LET c == can_cast_type(val_ty, ty)
             IN  IF c.some THEN [expr |-> Cast(value, ty, c.val), ok |-> TRUE]
                 ELSE [expr |-> value, ok |-> FALSE]

\* the enum a (possibly nullable) enum case instance belongs to
EnumCaseParent(optInst) ==
    IF optInst.some /\ Decls[optInst.val.ty].kind = "EnumCase"
    THEN Some(Decls[optInst.val.ty].parent)
    ELSE NoneOpt

\* the `other` bound by (Type::Null, other) | (other, Type::Null) if guard
NullGuard(other) == other.tag \notin {"None", "Null", "Nullable"}
NullOther(left_ty, right_ty) ==
    IF left_ty.tag = "Null" /\ NullGuard(right_ty) THEN Some(right_ty)
    ELSE IF right_ty.tag = "Null" /\ NullGuard(left_ty) THEN Some(left_ty)
    ELSE NoneOpt

RECURSIVE try_unify_type(_, _)

\* try_unify_type probing the casts before the enum and null rules
try_unify_type_cast_first(left, right) ==
    LET left_ty   == get_type(left)
        right_ty  == get_type(right)
        left_adt  == try_adt_nullable(left_ty)
        right_adt == try_adt_nullable(right_ty)
        p1 == EnumCaseParent(left_adt)
        p2 == EnumCaseParent(right_adt)
        other == NullOther(left_ty, right_ty)
        cl == try_cast(left, right_ty)
        cr == try_cast(right, left_ty)
    IN  IF TypeEq(left_ty, right_ty)
        THEN [ty |-> Some(left_ty), left |-> left, right |-> right]
        ELSE IF cl.ok
        THEN [ty |-> Some(right_ty), left |-> cl.expr, right |-> right]
        ELSE IF cr.ok
        THEN [ty |-> Some(left_ty), left |-> cl.expr, right |-> cr.expr]
        ELSE IF /\ p1.some /\ p2.some
                /\ p1.val = p2.val
                /\ VecEq(left_adt.val.args, right_adt.val.args)
        THEN LET inst == Adt(p1.val, left_adt.val.args)
                 ty == IF left_ty.tag = "Adt" /\ right_ty.tag = "Adt"
                       THEN inst ELSE Nullable(inst)
             IN  try_unify_type(Cast(left, ty, "Bitcast"), Cast(right, ty, "Bitcast"))
        ELSE IF other.some
        THEN LET ty == Nullable(other.val)
             IN  [ty |-> Some(ty),
                  left |-> Cast(left, ty, "ToNullable"),
                  right |-> Cast(right, ty, "ToNullable")]
        ELSE [ty |-> NoneOpt, left |-> cl.expr, right |-> cr.expr]

\* try_unify_type taking the nullability of the parent from the left operand
\* alone
try_unify_type_left_nullable(left, right) ==
    LET left_ty   == get_type(left)
        right_ty  == get_type(right)
        left_adt  == try_adt_nullable(left_ty)
        right_adt == try_adt_nullable(right_ty)
        p1 == EnumCaseParent(left_adt)
        p2 == EnumCaseParent(right_adt)
        other == NullOther(left_ty, right_ty)
        cl == try_cast(left, right_ty)
        cr == try_cast(right, left_ty)
    IN  IF TypeEq(left_ty, right_ty)
        THEN [ty |-> Some(left_ty), left |-> left, right |-> right]
        ELSE IF /\ p1.some /\ p2.some
                /\ p1.val = p2.val
                /\ VecEq(left_adt.val.args, right_adt.val.args)
        THEN LET inst == Adt(p1.val, left_adt.val.args)
                 ty == IF left_ty.tag = "Adt" THEN inst ELSE Nullable(inst)
             IN  try_unify_type(Cast(left, ty, "Bitcast"), Cast(right, ty, "Bitcast"))
        ELSE IF other.some
        THEN LET ty == Nullable(other.val)
             IN  [ty |-> Some(ty),
                  left |-> Cast(left, ty, "ToNullable"),
                  right |-> Cast(right, ty, "ToNullable")]
        ELSE IF cl.ok
        THEN [ty |-> Some(right_ty), left |-> cl.expr, right |-> right]
        ELSE IF cr.ok
        THEN [ty |-> Some(left_ty), left |-> cl.expr, right |-> cr.expr]
        ELSE [ty |-> NoneOpt, left |-> cl.expr, right |-> cr.expr]

\* returns (Option<Type>, left, right)
try_unify_type(left, right) ==
    LET left_ty   == get_type(left)
        right_ty  == get_type(right)
        left_adt  == try_adt_nullable(left_ty)
        right_adt == try_adt_nullable(right_ty)
        p1 == EnumCaseParent(left_adt)
        p2 == EnumCaseParent(right_adt)
        other == NullOther(left_ty, right_ty)
        cl == try_cast(left, right_ty)
        cr == try_cast(right, left_ty)
    IN  IF TypeEq(left_ty, right_ty)
        THEN [ty |-> Some(left_ty), left |-> left, right |-> right]
        ELSE IF /\ p1.some /\ p2.some
                /\ p1.val = p2.val
                /\ VecEq(left_adt.val.args, right_adt.val.args)
        THEN LET inst == Adt(p1.val, left_adt.val.args)
                 ty == IF left_ty.tag = "Adt" /\ right_ty.tag = "Adt"
                       THEN inst ELSE Nullable(inst)
             IN  try_unify_type(Cast(left, ty, "Bitcast"), Cast(right, ty, "Bitcast"))
        ELSE IF other.some
        THEN LET ty == Nullable(other.val)
             IN  [ty |-> Some(ty),
                  left |-> Cast(left, ty, "ToNullable"),
                  right |-> Cast(right, ty, "ToNullable")]
        ELSE IF cl.ok
        THEN [ty |-> Some(right_ty), left |-> cl.expr, right |-> right]
        ELSE IF cr.ok
        THEN [ty |-> Some(left_ty), left |-> cl.expr, right |-> cr.expr]
        ELSE [ty |-> NoneOpt, left |-> cl.expr, right |-> cr.expr]

(***************************************************************************)
(* The types the functions are applied to.                                 *)
(***************************************************************************)
VarT == Variable(0, "T", MarkerBound("Unbounded"))
VarX == Variable(0, "X", MarkerBound("Number"))
VarU == Variable(1, "U", MarkerBound("Number"))
VarI == Variable(0, "T", InterfaceBound(Adt("I", <<>>)))

Primitives == {Prim(t) : t \in PrimitiveTags}

\* instances as find_type and the declaration passes build them: type
\* arguments are resolved types, never Any
Instances ==
    {Adt("A", <<>>), Adt("B", <<>>), Adt("C", <<>>), Adt("E", <<>>), Adt("E2", <<>>),
     Adt("Foo", <<>>), Adt("I", <<>>),
     Adt("Box", <<>>), Adt("Box", <<TI32>>), Adt("Box", <<TBool>>), Adt("Box", <<VarT>>),
     Adt("Box", <<Adt("Box", <<VarT>>)>>), Adt("Box", <<Nullable(VarT)>>),
     Adt("G", <<TI32>>), Adt("GA", <<TI32>>), Adt("GB", <<TI32>>), Adt("GB", <<TBool>>),
     Adt("GA", <<VarT>>), Adt("GB", <<VarX>>),
     Function("f", <<>>)}

Closures ==
    {Closure(<<>>, TNone, "none"), Closure(<<TI32>>, TBool, "none"),
     Closure(<<TI32>>, TBool, "ir"), Closure(<<VarT>>, VarT, "none"),
     Closure(<<TBool>>, VarU, "none")}

Captures ==
    {ClosureCaptured(<<>>),
     ClosureCaptured(<<LocalVariable("x", TI32, FALSE)>>),
     ClosureCaptured(<<LocalVariable("y", TBool, TRUE)>>),
     ClosureCaptured(<<LocalVariable("x", TI32, FALSE), LocalVariable("y", TBool, TRUE)>>)}

Variables == {VarT, VarX, VarU, VarI}

\* the types that get wrapped
WrapBase ==
    {TAny, TNull, TI32, VarT, VarU, Adt("A", <<>>), Adt("B", <<>>), Adt("Foo", <<>>),
     Adt("Box", <<>>), Adt("Box", <<VarT>>), Adt("GA", <<TI32>>), Adt("GB", <<TI32>>),
     Closure(<<VarT>>, VarT, "none")}

Wrap(S) == {Nullable(t) : t \in S} \cup {RawPtr(t) : t \in S} \cup {TypeOf(t) : t \in S}

RECURSIVE Wrapped(_, _)
Wrapped(S, n) == IF n = 0 THEN S ELSE S \cup Wrap(Wrapped(S, n - 1))

\* two wrappers around a type variable, as find_type builds for `*T?`
DeepVars == {Nullable(RawPtr(VarT)), RawPtr(RawPtr(VarU)), TypeOf(Nullable(VarT))}

Types ==
    Primitives \cup Instances \cup Closures \cup Captures \cup Variables
        \cup DeepVars \cup Wrapped(WrapBase, MaxWrap)

\* type argument lists handed to resolve
ArgLists ==
    {<<>>, <<TI32>>, <<TBool, TI64>>, <<Adt("Foo", <<>>)>>, <<Adt("Box", <<TI32>>)>>,
     <<Nullable(Adt("Foo", <<>>))>>, <<Adt("Box", <<>>)>>,
     <<VarT>>, <<VarU, TI32>>, <<VarT, VarU>>}

(***************************************************************************)
(* State.                                                                  *)
(*   op, input, res : the function applied to drawn inputs, and its result *)
(*   modules        : the import passes' Vec<(Module, MIRGenerator)>       *)
(*   import_stage   : the pass the import pipeline is at                   *)
(*   import_result  : what ensure_no_imports returned                      *)
(*   iface_impls    : GIRGenerator::iface_impls, the tables per type       *)
(***************************************************************************)
VARIABLES op, input, res

VARIABLES modules, import_stage, import_result

VARIABLES iface_impls

\* the parser over its token stream and the builder of the syntax tree
VARIABLES parser, node_builder

callVars == <<op, input, res>>
importVars == <<modules, import_stage, import_result>>
frontVars == <<parser, node_builder>>

\* everything but the state of the pass driver
typeVars == <<op, input, res, modules, import_stage, import_result, iface_impls,
             parser, node_builder>>

NoCall == [none |-> TRUE]

\* inputs of the type-model functions
EqInit ==
    \/ /\ op = "equal"
       /\ input \in [a : Types, b : Types, strict : BOOLEAN]
    \/ /\ op = "hash"
       /\ input \in [a : Types, b : Types]
    \/ /\ op = "instance_hash"
       /\ input \in [a : {t.inst : t \in Instances}, b : {t.inst : t \in Instances}]

ResolveInit ==
    /\ op = "resolve"
    /\ input \in [t : Types, args : ArgLists]

CastInit ==
    \/ /\ op = "try_cast"
       /\ input \in [value : {Value("v", t) : t \in Types}, ty : Types]
    \/ /\ op = "try_unify_type"
       /\ input \in [left : {Value("l", t) : t \in Types},
                     right : {Value("r", t) : t \in Types}]

\* Type::equal(a, b, strict)
CallEqual ==
    /\ op = "equal" /\ res = NoCall
    /\ res' = [eq |-> equal(input.a, input.b, input.strict)]
    /\ UNCHANGED <<op, input>>

\* a.hash(state), b.hash(state)
CallHash ==
    /\ op = "hash" /\ res = NoCall
    /\ res' = [ha |-> TypeHash(input.a), hb |-> TypeHash(input.b)]
    /\ UNCHANGED <<op, input>>

CallInstanceHash ==
    /\ op = "instance_hash" /\ res = NoCall
    /\ res' = [ha |-> InstanceHash(input.a), hb |-> InstanceHash(input.b)]
    /\ UNCHANGED <<op, input>>

\* t.resolve(args), and resolve applied to the result again
CallResolve ==
    /\ op = "resolve" /\ res = NoCall
    /\ res' = [once |-> resolve(input.t, input.args),
               twice |-> resolve(resolve(input.t, input.args), input.args)]
    /\ UNCHANGED <<op, input>>

CallTryCast ==
    /\ op = "try_cast" /\ res = NoCall
    /\ res' = try_cast(input.value, input.ty)
    /\ UNCHANGED <<op, input>>

CallTryUnify ==
    /\ op = "try_unify_type" /\ res = NoCall
    /\ res' = try_unify_type(input.left, input.right)
    /\ UNCHANGED <<op, input>>

(***************************************************************************)
(* The pass driver.  The program handed to it has NumModules modules; the  *)
(* AST of each module declares one ADT and one function; an enum comes     *)
(* with its cases, which are declarations of their own.                    *)
(***************************************************************************)
Modules == 1..NumModules

AdtOf(m) == [mod |-> m, name |-> "adt", kind |-> "Adt"]
CaseOf(m) == [mod |-> m, name |-> "case", kind |-> "Adt"]
FnOf(m) == [mod |-> m, name |-> "fn", kind |-> "Function"]

\* a member of an ADT's AST: its name, the explicitly written type and the
\* type of its initializer expression, each optional
Member(name, ty, init) == [name |-> name, ty |-> ty, init |-> init]
MemberForms ==
    {Member("x", Some(TI32), NoneOpt),
     Member("x", NoneOpt, Some(TBool)),
     Member("y", Some(TI32), Some(TI64)),
     Member("y", Some(TBool), NoneOpt)}

RECURSIVE SeqsUpTo(_, _)
SeqsUpTo(S, n) ==
    IF n = 0 THEN {<<>>}
    ELSE LET shorter == SeqsUpTo(S, n - 1)
         IN  shorter \cup {Append(q, e) : q \in shorter, e \in S}

\* the members written in enums and in their cases
EnumMemberForms ==
    {Member("x", Some(TI32), NoneOpt),
     Member("y", Some(TI32), Some(TI64))}

\* ast::ADTType::EnumCase: the variables of a case include all members of the
\* parent, before its own
EnumCaseAst(parent_members, own) ==
    [ty |-> "EnumCase", members |-> parent_members \o own, methods |-> {"y"},
     cases |-> <<>>]

\* member lists in which a name is written twice, followed by one more member
DuplicateThenMember ==
    {Append(ms, Member("z", Some(TBool), NoneOpt)) :
        ms \in {q \in SeqsUpTo(MemberForms, MaxMembers) :
                   \E i, j \in 1..Len(q) : i < j /\ q[i].name = q[j].name}}

\* the AST of a module's ADT: a class with members, an interface, or an enum
\* with members and one case
AdtAsts ==
    {[ty |-> "Class", members |-> ms, methods |-> {"y"}, cases |-> <<>>] :
        ms \in SeqsUpTo(MemberForms, MaxMembers) \cup DuplicateThenMember}
        \cup {[ty |-> "Interface", members |-> <<>>, methods |-> {"m"}, cases |-> <<>>]}
        \cup {[ty |-> "Enum", members |-> ms, methods |-> {"y"},
                cases |-> <<EnumCaseAst(ms, own)>>] :
                  ms \in SeqsUpTo(EnumMemberForms, MaxMembers - 1),
                  own \in SeqsUpTo(EnumMemberForms, MaxMembers - 1)}

\* ADT::ast: the AST a declared ADT was made from
AstOf(program, decl) ==
    IF decl.name = "case" THEN program[decl.mod].cases[1] ELSE program[decl.mod]

\* ADT::from_ast: the ADTs made from the AST of module m, the enum before
\* its cases
from_ast(program, m) ==
    IF program[m].cases = <<>> THEN <<AdtOf(m)>> ELSE <<AdtOf(m), CaseOf(m)>>

AdtIds == {AdtOf(m) : m \in Modules} \cup {CaseOf(m) : m \in Modules}

\* ADTType::has_members
has_members(ty) == ty \in {"Class", "EnumCase", "Enum"}

\* run_passes: the passes in the order they are run, with the driver loop
\* that runs each and the stage it belongs to
Pass(name, scope, stage) == [name |-> name, scope |-> scope, stage |-> stage]

PassesFieldsAfterGenerate ==
    << Pass("declare_adts", "ast", 1),
       Pass("populate_intrinsics", "mod", 1),
       Pass("import_stage_1", "mod", 1),
       Pass("declare_iface_impls", "ast", 1),
       Pass("declare_functions", "ast", 1),
       Pass("populate_intrinsics_fn", "mod", 1),
       Pass("validate_intrinsics", "once", 1),
       Pass("import_stage_2", "mod", 1),
       Pass("declare_methods", "adt", 2),
       Pass("fill_impls", "once", 2),
       Pass("constructor_setters", "adt", 2),
       Pass("declare_lifecycle_methods", "adt", 2),
       Pass("generate_lifecycle_methods", "adt", 2),
       Pass("generate", "dec", 3),
       Pass("insert_adt_fields", "adt", 3),
       Pass("generate_impls", "once", 3) >>

PassesGenerateInStage2 ==
    << Pass("declare_adts", "ast", 1),
       Pass("populate_intrinsics", "mod", 1),
       Pass("import_stage_1", "mod", 1),
       Pass("declare_iface_impls", "ast", 1),
       Pass("declare_functions", "ast", 1),
       Pass("populate_intrinsics_fn", "mod", 1),
       Pass("validate_intrinsics", "once", 1),
       Pass("import_stage_2", "mod", 1),
       Pass("declare_methods", "adt", 2),
       Pass("fill_impls", "once", 2),
       Pass("generate", "dec", 2),
       Pass("insert_adt_fields", "adt", 2),
       Pass("constructor_setters", "adt", 2),
       Pass("declare_lifecycle_methods", "adt", 2),
       Pass("generate_lifecycle_methods", "adt", 2),
       Pass("generate_impls", "once", 3) >>

Passes ==
    << Pass("declare_adts", "ast", 1),
       Pass("populate_intrinsics", "mod", 1),
       Pass("import_stage_1", "mod", 1),
       Pass("declare_iface_impls", "ast", 1),
       Pass("declare_functions", "ast", 1),
       Pass("populate_intrinsics_fn", "mod", 1),
       Pass("validate_intrinsics", "once", 1),
       Pass("import_stage_2", "mod", 1),
       Pass("declare_methods", "adt", 2),
       Pass("fill_impls", "once", 2),
       Pass("insert_adt_fields", "adt", 2),
       Pass("constructor_setters", "adt", 2),
       Pass("declare_lifecycle_methods", "adt", 2),
       Pass("generate_lifecycle_methods", "adt", 2),
       Pass("generate", "dec", 3),
       Pass("generate_impls", "once", 3) >>

PassNames == {Passes[i].name : i \in 1..Len(Passes)}

(***************************************************************************)
(*   ast          : per module, the AST of its ADT                         *)
(*   pc, cur      : the pass being run and the position of its loop        *)
(*   snapshot     : the declarations run_dec collected when it started     *)
(*   module       : the module selected by switch_module                   *)
(*   context      : the declaration whose type parameters are in scope     *)
(*   declarations : per module, its declarations in insertion order        *)
(*   methods      : per ADT, the methods declared on it                    *)
(*   fields       : per ADT, its field map in insertion order              *)
(*   ran          : per pass, the targets its runner has completed         *)
(*   errors       : the errors reported so far                             *)
(*   lowered      : the expressions lowered so far, each with the pass     *)
(*                  that lowered it and the ADTs that had fields then      *)
(***************************************************************************)
VARIABLES ast, pc, cur, snapshot, module, context, declarations, methods,
          fields, ran, errors, lowered

driverVars == <<ast, pc, cur, snapshot, module, context, declarations, methods,
                fields, ran, errors, lowered>>

\* everything but the function applied and its result
passVars == <<driverVars, modules, import_stage, import_result, iface_impls,
             parser, node_builder>>

vars == <<op, input, res, modules, import_stage, import_result, iface_impls,
          parser, node_builder, ast, pc, cur,
          snapshot, module, context, declarations, methods, fields, ran, errors, lowered>>

Running == pc \in 1..Len(Passes)
CurrentPass == Passes[pc]

\* run_mod / run_ast iterate modules_uncompiled
ModuleList == [i \in 1..NumModules |-> i]

\* run_dec: every declaration of every module, with its module
CollectDeclarations == FlattenSeq([m \in 1..NumModules |-> declarations[m]])

\* the list the running pass iterates
Targets ==
    IF CurrentPass.scope \in {"mod", "ast"} THEN ModuleList
    ELSE IF CurrentPass.scope = "once" THEN <<"once">>
    ELSE IF cur = 1 THEN CollectDeclarations ELSE snapshot

Target == Targets[cur]

\* the loop moves on; after the last target the next pass starts
Advance ==
    /\ snapshot' = (IF CurrentPass.scope \in {"dec", "adt"} THEN Targets ELSE snapshot)
    /\ IF cur >= Len(Targets)
       THEN pc' = pc + 1 /\ cur' = 1
       ELSE pc' = pc /\ cur' = cur + 1

\* the pass `name` is at a target
At(name) == Running /\ CurrentPass.name = name /\ cur <= Len(Targets)

Done(name) == [ran EXCEPT ![name] = @ \cup {Target}]

\* one iteration of run_mod / run_ast that changes nothing but the driver
ModStep(name) ==
    /\ At(name)
    /\ module' = Target
    /\ ran' = Done(name)
    /\ Advance

\* one iteration of run_dec / run_adt on an ADT
AdtStep(name) ==
    /\ At(name)
    /\ Target.kind = "Adt"
    /\ module' = Target.mod
    /\ context' = Target
    /\ ran' = Done(name)
    /\ Advance

\* a pass run once, outside the driver loops
OnceStep(name) ==
    /\ At(name)
    /\ ran' = Done(name)
    /\ Advance

(***************************************************************************)
(* Stage 1.                                                                *)
(***************************************************************************)
DeclareAdts ==
    /\ ModStep("declare_adts")
    /\ declarations' = [declarations EXCEPT ![Target] = @ \o from_ast(ast, Target)]
    /\ UNCHANGED <<typeVars, ast, context, methods, fields, errors, lowered>>

PopulateIntrinsics ==
    /\ ModStep("populate_intrinsics")
    /\ UNCHANGED <<typeVars, ast, context, declarations, methods, fields, errors, lowered>>

ImportStage1 ==
    /\ ModStep("import_stage_1")
    /\ UNCHANGED <<typeVars, ast, context, declarations, methods, fields, errors, lowered>>

DeclareIfaceImpls ==
    /\ ModStep("declare_iface_impls")
    /\ UNCHANGED <<typeVars, ast, context, declarations, methods, fields, errors, lowered>>

DeclareFunctions ==
    /\ ModStep("declare_functions")
    /\ declarations' = [declarations EXCEPT ![Target] = Append(@, FnOf(Target))]
    /\ UNCHANGED <<typeVars, ast, context, methods, fields, errors, lowered>>

PopulateIntrinsicsFn ==
    /\ ModStep("populate_intrinsics_fn")
    /\ UNCHANGED <<typeVars, ast, context, declarations, methods, fields, errors, lowered>>

ValidateIntrinsics ==
    /\ OnceStep("validate_intrinsics")
    /\ UNCHANGED <<typeVars, ast, module, context, declarations, methods, fields,
                   errors, lowered>>

ImportStage2 ==
    /\ ModStep("import_stage_2")
    /\ UNCHANGED <<typeVars, ast, context, declarations, methods, fields, errors, lowered>>

(***************************************************************************)
(* Stage 2.                                                                *)
(***************************************************************************)
\* run_adt reaches a declaration that is no ADT: the runner is not called
RunAdtSkip ==
    /\ Running /\ CurrentPass.scope = "adt" /\ cur <= Len(Targets)
    /\ Target.kind # "Adt"
    /\ module' = Target.mod
    /\ context' = Target
    /\ Advance
    /\ UNCHANGED <<typeVars, ast, declarations, methods, fields, ran, errors, lowered>>

DeclareMethods ==
    /\ AdtStep("declare_methods")
    /\ methods' = [methods EXCEPT ![Target] = AstOf(ast, Target).methods]
    /\ UNCHANGED <<typeVars, ast, declarations, fields, errors, lowered>>

FillImpls ==
    /\ OnceStep("fill_impls")
    /\ UNCHANGED <<typeVars, ast, module, context, declarations, methods, fields,
                   errors, lowered>>

\* an expression lowered to IR: which pass did it, in which stage, for which
\* declaration, and the ADTs whose field pass was complete at that moment
Lowering(what, decl, index) ==
    [what |-> what, pass |-> CurrentPass.name, stage |-> CurrentPass.stage,
     decl |-> decl, index |-> index, fieldsDone |-> ran["insert_adt_fields"]]

Field(name, mutable, ty, hasInit, index) ==
    [name |-> name, mutable |-> mutable, ty |-> ty, initializer |-> hasInit,
     index |-> index]

Error(msg, name) == [msg |-> msg, name |-> name]

\* IndexMap::insert: a new key is appended, an existing key keeps its place
\* and gets the new value
IndexMapInsert(map, member) ==
    IF \E i \in 1..Len(map) : map[i].name = member.name
    THEN LET i == CHOOSE j \in 1..Len(map) : map[j].name = member.name
         IN  [map |-> [map EXCEPT ![i] = member], existing |-> TRUE]
    ELSE [map |-> Append(map, member), existing |-> FALSE]

\* the loop of build_adt from member number `index` on; st holds the field
\* map, the errors and the lowered expressions.  The written types of the
\* members here resolve and are no weak references, so find_type returns Ok
\* and can_escape holds of every member.
RECURSIVE build_adt(_, _, _, _)

\* build_adt leaving the loop at the first member that is already in the map
build_adt_stop_at_duplicate(adt, members, index, st) ==
    IF index >= Len(members) THEN st
    ELSE LET field == members[index + 1]
             low == IF field.init.some
                    THEN st.lowered \cup {Lowering("initializer", adt, index)}
                    ELSE st.lowered
             ty == IF field.init.some THEN field.init.val ELSE field.ty.val
             member == Field(field.name, FALSE, ty, field.init.some, index)
             ins == IndexMapInsert(st.fields, member)
         IN  IF ins.existing
             THEN [fields |-> ins.map,
                   errors |-> Append(st.errors,
                                     Error("Class member cannot be defined twice",
                                           field.name)),
                   lowered |-> low]
             ELSE build_adt(adt, members, index + 1,
                            [fields |-> ins.map, errors |-> st.errors, lowered |-> low])

build_adt(adt, members, index, st) ==
    IF index >= Len(members) THEN st
    ELSE LET field == members[index + 1]
             low == IF field.init.some
                    THEN st.lowered \cup {Lowering("initializer", adt, index)}
                    ELSE st.lowered
             ty == IF field.init.some THEN field.init.val ELSE field.ty.val
             member == Field(field.name, FALSE, ty, field.init.some, index)
             ins == IndexMapInsert(st.fields, member)
             errs == IF ins.existing
                     THEN Append(st.errors,
                                 Error("Class member cannot be defined twice", field.name))
                     ELSE st.errors
         IN  build_adt(adt, members, index + 1,
                       [fields |-> ins.map, errors |-> errs, lowered |-> low])

\* the errors check_duplicate adds for the fields from number i on
RECURSIVE check_duplicate(_, _, _)
check_duplicate(fs, ms, i) ==
    IF i > Len(fs) THEN <<>>
    ELSE (IF fs[i].name \in ms
          THEN <<Error("Cannot have member and method with same name", fs[i].name)>>
          ELSE <<>>) \o check_duplicate(fs, ms, i + 1)

\* insert_adt_fields: fill_adt for an ADT with members, nothing otherwise
InsertAdtFields ==
    /\ AdtStep("insert_adt_fields")
    /\ LET adt == AstOf(ast, Target)
           built == build_adt(Target, adt.members, 0,
                              [fields |-> fields[Target], errors |-> errors,
                               lowered |-> lowered])
       IN  IF has_members(adt.ty)
           THEN /\ fields' = [fields EXCEPT ![Target] = built.fields]
                /\ errors' = built.errors \o
                                 check_duplicate(built.fields, methods[Target], 1)
                /\ lowered' = built.lowered
           ELSE UNCHANGED <<fields, errors, lowered>>
    /\ UNCHANGED <<typeVars, ast, declarations, methods>>

ConstructorSetters ==
    /\ AdtStep("constructor_setters")
    /\ UNCHANGED <<typeVars, ast, declarations, methods, fields, errors, lowered>>

DeclareLifecycleMethods ==
    /\ AdtStep("declare_lifecycle_methods")
    /\ UNCHANGED <<typeVars, ast, declarations, methods, fields, errors, lowered>>

GenerateLifecycleMethods ==
    /\ AdtStep("generate_lifecycle_methods")
    /\ UNCHANGED <<typeVars, ast, declarations, methods, fields, errors, lowered>>

(***************************************************************************)
(* Stage 3.                                                                *)
(***************************************************************************)
\* generate lowers the body of a function or of the methods of an ADT
Generate ==
    /\ At("generate")
    /\ module' = Target.mod
    /\ context' = Target
    /\ ran' = Done("generate")
    /\ lowered' = lowered \cup {Lowering("body", Target, 0)}
    /\ Advance
    /\ UNCHANGED <<typeVars, ast, declarations, methods, fields, errors>>

GenerateImpls ==
    /\ OnceStep("generate_impls")
    /\ UNCHANGED <<typeVars, ast, module, context, declarations, methods, fields,
                   errors, lowered>>

(***************************************************************************)
(* Specifications.                                                         *)
(***************************************************************************)
\* the driver before run_passes, for a given program
DriverInit(program) ==
    /\ ast = program
    /\ pc = 1
    /\ cur = 1
    /\ snapshot = <<>>
    /\ module = 0
    /\ context = NoCall
    /\ declarations = [m \in Modules |-> <<>>]
    /\ methods = [a \in AdtIds |-> {}]
    /\ fields = [a \in AdtIds |-> <<>>]
    /\ ran = [n \in PassNames |-> {}]
    /\ errors = <<>>
    /\ lowered = {}

NoProgram ==
    [m \in Modules |-> [ty |-> "Interface", members |-> <<>>, methods |-> {}, cases |-> <<>>]]

\* no module handed to the import passes, no interface table yet
NoImports == modules = <<>> /\ import_stage = "done" /\ import_result = NoCall
NoImpls == iface_impls = <<>>
\* no parser and no tree builder constructed
NoFrontEnd == parser = NoCall /\ node_builder = NoCall

Init ==
    /\ op = "none" /\ input = NoCall /\ res = NoCall
    /\ \E program \in [Modules -> AdtAsts] : DriverInit(program)
    /\ NoImports /\ NoImpls /\ NoFrontEnd

Next ==
    \/ DeclareAdts
    \/ PopulateIntrinsics
    \/ ImportStage1
    \/ DeclareIfaceImpls
    \/ DeclareFunctions
    \/ PopulateIntrinsicsFn
    \/ ValidateIntrinsics
    \/ ImportStage2
    \/ RunAdtSkip
    \/ DeclareMethods
    \/ FillImpls
    \/ InsertAdtFields
    \/ ConstructorSetters
    \/ DeclareLifecycleMethods
    \/ GenerateLifecycleMethods
    \/ Generate
    \/ GenerateImpls

\* run_passes on a program of NumModules modules
Spec == Init /\ [][Next]_vars

\* Type::equal and the Hash implementations applied to drawn types
EqSpecInit ==
    EqInit /\ res = NoCall /\ DriverInit(NoProgram) /\ NoImports /\ NoImpls /\ NoFrontEnd
EqNext ==
    \/ CallEqual /\ UNCHANGED passVars
    \/ CallHash /\ UNCHANGED passVars
    \/ CallInstanceHash /\ UNCHANGED passVars
EqSpec == EqSpecInit /\ [][EqNext]_vars

\* Type::resolve applied to drawn types and argument lists
ResolveSpecInit ==
    ResolveInit /\ res = NoCall /\ DriverInit(NoProgram) /\ NoImports /\ NoImpls /\ NoFrontEnd
ResolveNext == CallResolve /\ UNCHANGED passVars
ResolveSpec == ResolveSpecInit /\ [][ResolveNext]_vars

\* try_cast and try_unify_type applied to drawn expressions
CastSpecInit ==
    CastInit /\ res = NoCall /\ DriverInit(NoProgram) /\ NoImports /\ NoImpls /\ NoFrontEnd
CastNext ==
    \/ CallTryCast /\ UNCHANGED passVars
    \/ CallTryUnify /\ UNCHANGED passVars
CastSpec == CastSpecInit /\ [][CastNext]_vars

(***************************************************************************)
(* Properties.                                                             *)
(***************************************************************************)
Called(f) == op = f /\ res # NoCall

\* does a type variable occur anywhere in the type
RECURSIVE ContainsVariable(_)
ContainsVariable(t) ==
    IF t.tag = "Variable" THEN TRUE
    ELSE IF t.tag \in {"Nullable", "RawPtr", "Type"} THEN ContainsVariable(t.inner)
    ELSE IF t.tag \in {"Adt", "Function"}
         THEN \E i \in 1..Len(t.inst.args) : ContainsVariable(t.inst.args[i])
    ELSE IF t.tag = "Closure"
         THEN \/ \E i \in 1..Len(t.cls.parameters) : ContainsVariable(t.cls.parameters[i])
              \/ ContainsVariable(t.cls.ret_type)
    ELSE IF t.tag = "ClosureCaptured"
         THEN \E i \in 1..Len(t.cap) : ContainsVariable(t.cap[i].ty)
    ELSE FALSE

\* the largest index of a type variable of the type, -1 without one
RECURSIVE MaxVarIndex(_)
MaxOf(S) == IF S = {} THEN -1 ELSE CHOOSE x \in S : \A y \in S : y <= x
MaxVarIndex(t) ==
    IF t.tag = "Variable" THEN t.var.index
    ELSE IF t.tag \in {"Nullable", "RawPtr", "Type"} THEN MaxVarIndex(t.inner)
    ELSE IF t.tag \in {"Adt", "Function"}
         THEN MaxOf({MaxVarIndex(t.inst.args[i]) : i \in 1..Len(t.inst.args)})
    ELSE IF t.tag = "Closure"
         THEN MaxOf({MaxVarIndex(t.cls.parameters[i]) : i \in 1..Len(t.cls.parameters)}
                    \cup {MaxVarIndex(t.cls.ret_type)})
    ELSE IF t.tag = "ClosureCaptured"
         THEN MaxOf({MaxVarIndex(t.cap[i].ty) : i \in 1..Len(t.cap)})
    ELSE -1

\* is the type, below its wrappers, an instance without arguments of a
\* declaration with type parameters, or has it such an instance among the
\* arguments of its instance
RECURSIVE Unspecialized(_)
Unspecialized(t) ==
    IF t.tag \in {"Adt", "Function"}
    THEN \/ t.inst.args = <<>> /\ Decls[t.inst.ty].type_parameters # <<>>
         \/ \E i \in 1..Len(t.inst.args) : Unspecialized(t.inst.args[i])
    ELSE IF t.tag \in {"Nullable", "RawPtr", "Type"} THEN Unspecialized(t.inner)
    ELSE FALSE

ConcreteArgs(args) ==
    \A i \in 1..Len(args) : ~ContainsVariable(args[i]) /\ ~Unspecialized(args[i])

(***************************************************************************)
(* try_unify_type: the rules and their order.                              *)
(***************************************************************************)
\* both operands are (possibly nullable) cases of one enum, same arguments
EnumRule(lt, rt) ==
    LET la == try_adt_nullable(lt)
        ra == try_adt_nullable(rt)
    IN  /\ la.some /\ ra.some
        /\ Decls[la.val.ty].kind = "EnumCase" /\ Decls[ra.val.ty].kind = "EnumCase"
        /\ Decls[la.val.ty].parent = Decls[ra.val.ty].parent
        /\ VecEq(la.val.args, ra.val.args)

\* exactly one operand is Null, the other not None, Null or nullable
NullRule(lt, rt) ==
    \/ lt.tag = "Null" /\ rt.tag \notin {"None", "Null", "Nullable"}
    \/ rt.tag = "Null" /\ lt.tag \notin {"None", "Null", "Nullable"}

\* the parent type both enum cases are cast to
EnumParentType(lt, rt) ==
    LET la == try_adt_nullable(lt).val
        p == Adt(Decls[la.ty].parent, la.args)
    IN  IF lt.tag = "Nullable" \/ rt.tag = "Nullable" THEN Nullable(p) ELSE p

\* C1: for operands of unequal types try_unify_type applies the first rule
\* that applies, in the order enum parent, null widening, cast left to right,
\* cast right to left; when none applies the result type is absent.
C1_UnifyRuleOrder ==
    (Called("try_unify_type") /\ ~TypeEq(input.left.ty, input.right.ty)) =>
        LET l == input.left
            r == input.right
            lt == l.ty
            rt == r.ty
            cl == try_cast(l, rt)
            cr == try_cast(r, lt)
        IN  IF EnumRule(lt, rt)
            THEN LET p == EnumParentType(lt, rt)
                 IN  res = [ty |-> Some(p), left |-> Cast(l, p, "Bitcast"),
                            right |-> Cast(r, p, "Bitcast")]
            ELSE IF NullRule(lt, rt)
            THEN LET o == Nullable(IF lt.tag = "Null" THEN rt ELSE lt)
                 IN  res = [ty |-> Some(o), left |-> Cast(l, o, "ToNullable"),
                            right |-> Cast(r, o, "ToNullable")]
            ELSE IF cl.ok
            THEN res = [ty |-> Some(rt), left |-> cl.expr, right |-> r]
            ELSE IF cr.ok
            THEN res = [ty |-> Some(lt), left |-> l, right |-> cr.expr]
            ELSE res = [ty |-> NoneOpt, left |-> l, right |-> r]

\* an earlier rule won although a later one applied as well: enum cases of
\* which the left one casts to the right type, or Null against Any
C1_Witness ==
    /\ Called("try_unify_type")
    /\ ~TypeEq(input.left.ty, input.right.ty)
    /\ EnumRule(input.left.ty, input.right.ty)
    /\ try_cast(input.left, input.right.ty).ok
    /\ res.ty = Some(Nullable(Adt("E", <<>>)))

(***************************************************************************)
(* try_cast.                                                               *)
(***************************************************************************)
\* what try_cast does when the types are not taken to be equal
CastOutcome(value, ty) ==
    LET c == can_cast_type(value.ty, ty)
    IN  IF c.some THEN [expr |-> Cast(value, ty, c.val), ok |-> TRUE]
        ELSE [expr |-> value, ok |-> FALSE]

\* C2 as stated: try_cast returns the value itself with success exactly
\* when the types are strictly equal (Any being strictly equal to Any), else
\* the outcome of can_cast_type.
C2_StrictEqualOnly ==
    Called("try_cast") =>
        IF \/ TypeEq(input.value.ty, input.ty)
           \/ input.value.ty.tag = "Any" /\ input.ty.tag = "Any"
        THEN res = [expr |-> input.value, ok |-> TRUE]
        ELSE res = CastOutcome(input.value, input.ty)

\* C2 amended: try_cast returns the value itself with success exactly when
\* the types are loosely equal - strictly equal, or one of them is Any;
\* otherwise the outcome is the one can_cast_type decides.
C2_LooseEqualOnly ==
    Called("try_cast") =>
        LET loose == \/ input.value.ty.tag = "Any"
                     \/ input.ty.tag = "Any"
                     \/ TypeEq(input.value.ty, input.ty)
        IN  /\ loose <=> res = [expr |-> input.value, ok |-> TRUE]
            /\ ~loose => res = CastOutcome(input.value, input.ty)

\* a value of type Any was accepted for I32 without a cast
C2_Witness ==
    /\ Called("try_cast")
    /\ input.value.ty = TAny /\ input.ty = TI32
    /\ res = [expr |-> input.value, ok |-> TRUE]

(***************************************************************************)
(* run_passes.                                                             *)
(***************************************************************************)
AllAdts == UNION {SeqRange(from_ast(ast, m)) : m \in Modules}
BodyLowered == \E e \in lowered : e.what = "body"

\* C3: when the generation stage lowers a body, every module has its ADT
\* shells and function signatures, both import stages ran for every module,
\* insert_adt_fields completed for every ADT and fill_impls has run.
C3_GenerateAfterDeclarations ==
    (At("generate") \/ BodyLowered) =>
        /\ ran["declare_adts"] = Modules
        /\ ran["declare_functions"] = Modules
        /\ \A m \in Modules :
              SeqRange(declarations[m]) = SeqRange(from_ast(ast, m)) \cup {FnOf(m)}
        /\ ran["import_stage_1"] = Modules
        /\ ran["import_stage_2"] = Modules
        /\ ran["insert_adt_fields"] = AllAdts
        /\ \A a \in AllAdts :
              has_members(AstOf(ast, a).ty) => Len(fields[a]) =
                  Cardinality({AstOf(ast, a).members[i].name :
                                  i \in 1..Len(AstOf(ast, a).members)})
        /\ ran["fill_impls"] = {"once"}
        /\ \A e \in lowered : e.what = "body" => e.fieldsDone = AllAdts

\* generation is under way: one body is lowered, another is still to come
C3_Witness ==
    /\ At("generate")
    /\ BodyLowered
    /\ \E m \in Modules : Len(fields[AdtOf(m)]) = MaxMembers

\* C4 as stated: expressions are lowered in stage 3 only, when all ADTs have
\* their fields.
C4_LoweringOnlyInStage3 ==
    \A e \in lowered : e.stage = 3 /\ e.fieldsDone = AllAdts

\* C4 amended: the bodies of functions and methods are lowered in stage 3
\* only, when all ADTs have their fields; the one expression lowered earlier
\* is a field initializer, which insert_adt_fields lowers in stage 2 while
\* the ADT it belongs to has not completed its field pass.
C4_BodiesOnlyInStage3 ==
    \A e \in lowered :
        /\ e.what = "body" => e.stage = 3 /\ e.fieldsDone = AllAdts
        /\ e.what # "body" =>
              /\ e.what = "initializer"
              /\ e.pass = "insert_adt_fields" /\ e.stage = 2
              /\ e.decl \notin e.fieldsDone

\* an initializer was lowered before any ADT had fields, and later a body
C4_Witness ==
    /\ \E e \in lowered : e.what = "initializer" /\ e.fieldsDone = {}
    /\ BodyLowered

(***************************************************************************)
(* Type::equal and Hash.                                                   *)
(***************************************************************************)
\* C5: strict equality is reflexive for every type, Any is strictly equal
\* to Any only, and in loose mode Any equals every type.
C5_StrictEqualityReflexive ==
    Called("equal") =>
        LET a == input.a
            b == input.b
            anyInvolved == a.tag = "Any" \/ b.tag = "Any"
        IN  /\ (input.strict /\ a = b) => res.eq
            /\ (input.strict /\ anyInvolved /\ a.tag # b.tag) => ~res.eq
            /\ (~input.strict /\ anyInvolved) => res.eq

\* C6: a == b implies that hashing a and hashing b write the same data, for
\* Types and for Instances.
C6_HashConsistentWithEq ==
    /\ (Called("hash") /\ TypeEq(input.a, input.b)) => res.ha = res.hb
    /\ (Called("instance_hash") /\ InstanceEq(input.a, input.b)) => res.ha = res.hb

(***************************************************************************)
(* Type::resolve.                                                          *)
(***************************************************************************)
\* C7 as stated: resolve leaves a type without type variables strictly equal
\* to itself (for the types strict equality can hold of at all).
C7_ResolveNoVariablesEqual ==
    (Called("resolve") /\ ~ContainsVariable(input.t) /\ TypeEq(input.t, input.t)) =>
        TypeEq(res.once, input.t)

\* C7 amended: resolve returns a type without type variables unchanged
\* unless the type is, or has among its instance arguments, an instance
\* without arguments of a declaration with type parameters.
C7_ResolveSpecializedUnchanged ==
    (Called("resolve") /\ ~ContainsVariable(input.t) /\ ~Unspecialized(input.t)) =>
        /\ res.once = input.t
        /\ TypeEq(res.once, input.t) <=> TypeEq(input.t, input.t)

\* resolve was applied with arguments to a specialised generic instance
C7_Witness ==
    /\ Called("resolve")
    /\ input.t = Nullable(Adt("GA", <<TI32>>))
    /\ input.args = <<TBool, TI64>>
    /\ res.once = input.t

\* C8 as stated: resolving twice with the same arguments equals resolving
\* once.
C8_ResolveIdempotent ==
    (Called("resolve") /\ TypeEq(res.once, res.once)) => TypeEq(res.twice, res.once)

\* C8 amended: resolving twice equals resolving once when no argument
\* contains a type variable or an instance lacking its arguments.
C8_ResolveIdempotentConcrete ==
    (Called("resolve") /\ ConcreteArgs(input.args)) =>
        /\ res.twice = res.once
        /\ TypeEq(res.once, res.once) => TypeEq(res.twice, res.once)

\* a variable was replaced by a generic instance and stayed so
C8_Witness ==
    /\ Called("resolve")
    /\ input.t = VarT
    /\ input.args = <<Adt("Box", <<TI32>>)>>
    /\ res.once = Adt("Box", <<TI32>>)
    /\ res.twice = res.once

\* C9: with concrete arguments covering every index, the resolved type
\* contains no type variable.
C9_ResolveSubstitutesAll ==
    (/\ Called("resolve")
     /\ ConcreteArgs(input.args)
     /\ MaxVarIndex(input.t) < Len(input.args)) =>
        ~ContainsVariable(res.once)

(***************************************************************************)
(* try_unify_type: operand order.                                          *)
(***************************************************************************)
\* C10: where the enum parent rule or the null widening rule unifies the
\* operands, unifying them in the other order yields the same type: the
\* same type value, or one that == holds of (type variables of one index).
C10_UnifyCommutative ==
    (/\ Called("try_unify_type")
     /\ ~TypeEq(input.left.ty, input.right.ty)
     /\ EnumRule(input.left.ty, input.right.ty) \/ NullRule(input.left.ty, input.right.ty)) =>
        LET swapped == try_unify_type(input.right, input.left)
        IN  /\ res.ty.some /\ swapped.ty.some
            /\ \/ res.ty.val = swapped.ty.val
               \/ TypeEq(res.ty.val, swapped.ty.val) /\ TypeEq(swapped.ty.val, res.ty.val)

\* an enum case and a nullable case of the same enum were unified
C10_Witness ==
    /\ Called("try_unify_type")
    /\ input.left.ty = Adt("GA", <<TI32>>)
    /\ input.right.ty = Nullable(Adt("GB", <<TI32>>))
    /\ res.ty = Some(Nullable(Adt("G", <<TI32>>)))

(***************************************************************************)
(* The resolver: find_type.                                                *)
(*                                                                         *)
(* An AST type is one of the shapes of ast::TypeE.  A Res<Type> is Ok(ty)  *)
(* or Err(code); both carry the errors reported on the way without making  *)
(* the call fail.                                                          *)
(***************************************************************************)
AIdent(tok) == [shape |-> "Ident", tok |-> tok]
ANullable(inner) == [shape |-> "Nullable", inner |-> inner]
ARawPtr(inner) == [shape |-> "RawPtr", inner |-> inner]
AClosure(params, ret_type) == [shape |-> "Closure", params |-> params, ret_type |-> ret_type]
AGeneric(ident, types) == [shape |-> "Generic", ident |-> ident, types |-> types]

Ok(ty, reported) == [ok |-> TRUE, ty |-> ty, reported |-> reported]
Err(code, reported) == [ok |-> FALSE, err |-> code, reported |-> reported]

\* Module::find_decl: the declaration of that name in the module
find_decl(name) == IF name \in DeclIds THEN Some(name) ELSE NoneOpt

\* Declaration::to_type: the type of the declaration with no type arguments
to_type(d) == IF Decls[d].kind = "Function" THEN Function(d, <<>>) ELSE Adt(d, <<>>)

\* GIRGenerator::symbol (on a 64-bit target)
symbol(name) ==
    CASE name = "None" -> Some(TNone)
      [] name = "bool" -> Some(TBool)
      [] name = "i8" -> Some(Prim("I8"))
      [] name = "i16" -> Some(Prim("I16"))
      [] name = "i32" -> Some(TI32)
      [] name = "i64" -> Some(TI64)
      [] name = "isize" -> Some(TI64)
      [] name = "u8" -> Some(Prim("U8"))
      [] name = "u16" -> Some(Prim("U16"))
      [] name = "u32" -> Some(Prim("U32"))
      [] name = "u64" -> Some(Prim("U64"))
      [] name = "usize" -> Some(Prim("U64"))
      [] name = "f32" -> Some(Prim("F32"))
      [] name = "f64" -> Some(TF64)
      [] OTHER -> LET d == find_decl(name)
                  IN  IF d.some THEN Some(to_type(d.val)) ELSE NoneOpt

\* TypeVariable::from_param
from_param(param) == Variable(param.index, param.name, param.bound)

\* GIRGenerator::search_type_param: the first parameter in scope of that name
search_type_param(in_scope, name) ==
    IF in_scope.some /\ \E i \in 1..Len(in_scope.val) : in_scope.val[i].name = name
    THEN LET i == CHOOSE j \in 1..Len(in_scope.val) :
                      /\ in_scope.val[j].name = name
                      /\ \A k \in 1..(j - 1) : in_scope.val[k].name # name
         IN  Some(from_param(in_scope.val[i]))
    ELSE NoneOpt

\* GIRGenerator::check_args_count: Ok(()) or Err(E321)
check_args_count(ty) ==
    LET params == type_params(ty)
        args == type_args(ty)
        param_count == IF params.some THEN Len(params.val) ELSE 0
        args_count == IF args.some THEN Len(args.val) ELSE 0
    IN  param_count = args_count

\* GIRGenerator::validate_type_args: reports, and returns nothing.  It
\* validates count and bounds; every parameter of the declarations here is
\* Unbounded, which every argument satisfies.
validate_type_args(args, params) ==
    IF Len(args) # Len(params) THEN <<"E321">> ELSE <<>>

\* collect::<Res<Vec<_>>>() over results computed in order: the first Err
\* ends the iteration, with what was reported until then
RECURSIVE CollectRes(_, _, _)
CollectRes(results, i, acc) ==
    IF i > Len(results) THEN acc
    ELSE IF ~results[i].ok
    THEN Err(results[i].err, acc.reported \o results[i].reported)
    ELSE CollectRes(results, i + 1,
                    Ok(Append(acc.ty, results[i].ty), acc.reported \o results[i].reported))

RECURSIVE find_type_(_, _, _)

\* GIRGenerator::find_type: find_type_ with allow_fn = false; type_params is
\* the context set by set_context
find_type(ast_type, ctx) == find_type_(ast_type, FALSE, ctx)

\* GIRGenerator::symbol_with_type_args
symbol_with_type_args(ident, types, ctx) ==
    LET ty == symbol(ident)
    IN  IF ~ty.some THEN Err("E300", <<>>)
        ELSE LET args == CollectRes([i \in 1..Len(types) |-> find_type(types[i], ctx)],
                                    1, Ok(<<>>, <<>>))
             IN  IF ~args.ok THEN args
                 ELSE IF args.ty = <<>> THEN Ok(ty.val, args.reported)
                 ELSE LET set == set_type_args(ty.val, args.ty)
                      IN  IF ~set.ok THEN Err("E304", args.reported)
                          ELSE Ok(set.ty,
                                  args.reported \o
                                      validate_type_args(args.ty, type_params(set.ty).val))

\* find_type_ with the Nullable shape accepting every inner type
find_type_nullable_unchecked(ast_type, allow_fn, ctx) ==
    CASE ast_type.shape = "Ident" ->
            LET param == search_type_param(ctx, ast_type.tok)
                ty == IF param.some THEN param ELSE symbol(ast_type.tok)
            IN  IF ~ty.some THEN Err("E300", <<>>)
                ELSE IF ~check_args_count(ty.val) THEN Err("E321", <<>>)
                ELSE IF ty.val.tag = "Function" /\ ~allow_fn THEN Err("E301", <<>>)
                ELSE Ok(ty.val, <<>>)
      [] ast_type.shape = "Nullable" ->
            LET inner == find_type(ast_type.inner, ctx)
            IN  IF ~inner.ok THEN inner
                ELSE Ok(Nullable(inner.ty), inner.reported)
      [] ast_type.shape = "RawPtr" ->
            LET inner == find_type(ast_type.inner, ctx)
            IN  IF ~inner.ok THEN inner ELSE Ok(RawPtr(inner.ty), inner.reported)
      [] ast_type.shape = "Closure" ->
            LET parameters ==
                    CollectRes([i \in 1..Len(ast_type.params) |->
                                    find_type(ast_type.params[i], ctx)], 1, Ok(<<>>, <<>>))
                ret_type == IF ast_type.ret_type.some
                            THEN find_type(ast_type.ret_type.val, ctx)
                            ELSE Ok(TNone, <<>>)
            IN  IF ~parameters.ok THEN parameters
                ELSE IF ~ret_type.ok
                THEN Err(ret_type.err, parameters.reported \o ret_type.reported)
                ELSE Ok(Closure(parameters.ty, ret_type.ty, "none"),
                        parameters.reported \o ret_type.reported)
      [] ast_type.shape = "Generic" ->
            symbol_with_type_args(ast_type.ident, ast_type.types, ctx)

\* GIRGenerator::find_type_
find_type_(ast_type, allow_fn, ctx) ==
    CASE ast_type.shape = "Ident" ->
            LET param == search_type_param(ctx, ast_type.tok)
                ty == IF param.some THEN param ELSE symbol(ast_type.tok)
            IN  IF ~ty.some THEN Err("E300", <<>>)
                ELSE IF ~check_args_count(ty.val) THEN Err("E321", <<>>)
                ELSE IF ty.val.tag = "Function" /\ ~allow_fn THEN Err("E301", <<>>)
                ELSE Ok(ty.val, <<>>)
      [] ast_type.shape = "Nullable" ->
            LET inner == find_type(ast_type.inner, ctx)
            IN  IF ~inner.ok THEN inner
                ELSE IF inner.ty.tag = "Nullable" THEN Err("E302", inner.reported)
                ELSE Ok(Nullable(inner.ty), inner.reported)
      [] ast_type.shape = "RawPtr" ->
            LET inner == find_type(ast_type.inner, ctx)
            IN  IF ~inner.ok THEN inner ELSE Ok(RawPtr(inner.ty), inner.reported)
      [] ast_type.shape = "Closure" ->
            LET parameters ==
                    CollectRes([i \in 1..Len(ast_type.params) |->
                                    find_type(ast_type.params[i], ctx)], 1, Ok(<<>>, <<>>))
                ret_type == IF ast_type.ret_type.some
                            THEN find_type(ast_type.ret_type.val, ctx)
                            ELSE Ok(TNone, <<>>)
            IN  IF ~parameters.ok THEN parameters
                ELSE IF ~ret_type.ok
                THEN Err(ret_type.err, parameters.reported \o ret_type.reported)
                ELSE Ok(Closure(parameters.ty, ret_type.ty, "none"),
                        parameters.reported \o ret_type.reported)
      [] ast_type.shape = "Generic" ->
            symbol_with_type_args(ast_type.ident, ast_type.types, ctx)

(***************************************************************************)
(* The AST types find_type is applied to: identifiers of primitives, of    *)
(* declarations, of a type parameter and of nothing, and the other shapes  *)
(* over them, nested up to MaxAstDepth deep.                               *)
(***************************************************************************)
MaxAstDepth == 2

IdentNames == {"i32", "None", "Foo", "Box", "f", "T", "nope"}
GenericNames == {"Box", "Foo", "f", "i32", "nope"}

RECURSIVE AstTypes(_)
AstTypes(n) ==
    IF n = 0 THEN {AIdent(tok) : tok \in IdentNames}
    ELSE LET inner == AstTypes(n - 1)
         IN  inner
                 \cup {ANullable(t) : t \in inner}
                 \cup {ARawPtr(t) : t \in inner}
                 \cup {AClosure(<<t>>, NoneOpt) : t \in inner}
                 \cup {AClosure(<<>>, Some(t)) : t \in inner}
                 \cup {AClosure(<<t>>, Some(t)) : t \in inner}
                 \cup {AGeneric(ident, <<t>>) : ident \in GenericNames, t \in inner}
                 \cup {AGeneric(ident, <<t, AIdent("i32")>>) : ident \in GenericNames, t \in inner}

\* the type parameters in scope: none, or those of a generic declaration
Contexts == {NoneOpt, Some(ParamT)}

FindInit ==
    /\ op = "find_type"
    /\ input \in [ast : AstTypes(MaxAstDepth), allow_fn : BOOLEAN, ctx : Contexts]

\* find_type_(ast, allow_fn) with the type parameters ctx in scope
CallFindType ==
    /\ op = "find_type" /\ res = NoCall
    /\ res' = find_type_(input.ast, input.allow_fn, input.ctx)
    /\ UNCHANGED <<op, input>>

\* find_type_ applied to drawn AST types
FindSpecInit ==
    FindInit /\ res = NoCall /\ DriverInit(NoProgram) /\ NoImports /\ NoImpls /\ NoFrontEnd
FindNext == CallFindType /\ UNCHANGED passVars
FindSpec == FindSpecInit /\ [][FindNext]_vars

(***************************************************************************)
(* find_type: argument counts and nullable nesting.                        *)
(***************************************************************************)
\* the number of type arguments written at the outermost level of an AST type
WrittenArgs(a) == IF a.shape = "Generic" THEN Len(a.types) ELSE 0

\* every instance inside the type has as many arguments as its declaration
\* has parameters
RECURSIVE ArgsMatchParams(_)
ArgsMatchParams(t) ==
    CASE t.tag \in {"Adt", "Function"} ->
            /\ Len(t.inst.args) = Len(Decls[t.inst.ty].type_parameters)
            /\ \A i \in 1..Len(t.inst.args) : ArgsMatchParams(t.inst.args[i])
      [] t.tag \in {"Nullable", "RawPtr", "Type"} -> ArgsMatchParams(t.inner)
      [] t.tag = "Closure" ->
            /\ \A i \in 1..Len(t.cls.parameters) : ArgsMatchParams(t.cls.parameters[i])
            /\ ArgsMatchParams(t.cls.ret_type)
      [] OTHER -> TRUE

\* C11: find_type fails with E321 when the number of type arguments written
\* for a declaration differs from the number of its type parameters, for the
\* identifier shape and the generic shape alike; so every instance in a type
\* that find_type returns has as many arguments as its declaration has
\* parameters.
C11_ArgCountMismatchRejected ==
    Called("find_type") =>
        /\ (/\ input.ast.shape \in {"Ident", "Generic"}
            /\ LET name == IF input.ast.shape = "Ident" THEN input.ast.tok
                           ELSE input.ast.ident
               IN  /\ ~(input.ast.shape = "Ident" /\ search_type_param(input.ctx, name).some)
                   /\ find_decl(name).some
                   /\ Len(Decls[name].type_parameters) # WrittenArgs(input.ast)
            /\ \/ input.ast.shape = "Ident"
               \/ \A i \in 1..Len(input.ast.types) : find_type(input.ast.types[i], input.ctx).ok)
           => (~res.ok /\ res.err = "E321")
        /\ res.ok => ArgsMatchParams(res.ty)

\* the type contains Nullable(Nullable(_)) or Nullable(Null)
RECURSIVE BadNullable(_)
BadNullable(t) ==
    CASE t.tag = "Nullable" -> t.inner.tag \in {"Nullable", "Null"} \/ BadNullable(t.inner)
      [] t.tag \in {"RawPtr", "Type"} -> BadNullable(t.inner)
      [] t.tag \in {"Adt", "Function"} ->
            \E i \in 1..Len(t.inst.args) : BadNullable(t.inst.args[i])
      [] t.tag = "Closure" ->
            \/ \E i \in 1..Len(t.cls.parameters) : BadNullable(t.cls.parameters[i])
            \/ BadNullable(t.cls.ret_type)
      [] OTHER -> FALSE

\* C12: a nullable AST type whose inner type resolves to a nullable type or
\* to Null is rejected with E302, and no type find_type returns contains
\* Nullable(Nullable(_)) or Nullable(Null) at any depth.
C12_NoNestedNullable ==
    Called("find_type") =>
        /\ (/\ input.ast.shape = "Nullable"
            /\ LET inner == find_type(input.ast.inner, input.ctx)
               IN  inner.ok /\ inner.ty.tag \in {"Nullable", "Null"})
           => (~res.ok /\ res.err = "E302")
        /\ res.ok => ~BadNullable(res.ty)

\* a nullable written around a nullable is rejected
C12_Witness ==
    /\ Called("find_type")
    /\ input.ast = ANullable(ANullable(AIdent("Foo")))
    /\ ~res.ok /\ res.err = "E302"

(***************************************************************************)
(* The field pass: indices, enum cases, field types, duplicates.           *)
(***************************************************************************)
\* the ADTs insert_adt_fields has run on and that have members
Filled == {a \in ran["insert_adt_fields"] : has_members(AstOf(ast, a).ty)}

MembersOf(a) == AstOf(ast, a).members
MemberNames(a) == {MembersOf(a)[i].name : i \in 1..Len(MembersOf(a))}

\* C13: after insert_adt_fields has run on an ADT, also when it reported a
\* field declared twice, the fields in insertion order carry the indices
\* 0, 1, ..., n-1, n being the number of fields in the map.
C13_FieldIndicesDense ==
    \A a \in Filled : \A i \in 1..Len(fields[a]) : fields[a][i].index = i - 1

\* C14: after the field pass the first parent.fields.len() fields of an enum
\* case are the parent's fields, with the same names and indices, the case's
\* own fields start at index parent.fields.len(), and the case has the type
\* parameters of its parent.
C14_CaseStartsWithParentFields ==
    /\ \A m \in Modules :
          (CaseOf(m) \in Filled /\ AdtOf(m) \in Filled) =>
              LET parent == fields[AdtOf(m)]
                  case == fields[CaseOf(m)]
                  n == Len(parent)
              IN  /\ Len(case) >= n
                  /\ \A i \in 1..n : /\ case[i].name = parent[i].name
                                     /\ case[i].index = parent[i].index
                  /\ Len(case) > n => case[n + 1].index = n
    /\ \A d \in DeclIds :
          Decls[d].kind = "EnumCase" =>
              Decls[d].type_parameters = Decls[Decls[d].parent].type_parameters

\* C15: the type of an inserted field is the explicitly written type whenever
\* the member has one, also when it has an initializer; the type of the
\* initializer is used only when no type is written.
C15_ExplicitTypeWins ==
    \A a \in Filled :
        \A i \in 1..Len(fields[a]) :
            \E k \in 1..Len(MembersOf(a)) :
                LET member == MembersOf(a)[k]
                IN  /\ member.name = fields[a][i].name
                    /\ fields[a][i].index = k - 1
                    /\ fields[a][i].ty = (IF member.ty.some THEN member.ty.val
                                          ELSE member.init.val)

\* the number of errors with that message reported so far
ErrorCount(msg) == Cardinality({i \in 1..Len(errors) : errors[i].msg = msg})

RECURSIVE Sum(_, _)
Sum(f, S) == IF S = {} THEN 0
             ELSE LET x == CHOOSE y \in S : TRUE IN f[x] + Sum(f, S \ {x})

MaxTables == 3

IFaceImpls(implementor, id) ==
    [implementor |-> implementor, interfaces |-> {}, methods |-> {}, id |-> id]

\* the types the tables are asked for
ImplTypes ==
    {TAny, TI32, Adt("Foo", <<>>), Nullable(Adt("Foo", <<>>)),
     ClosureCaptured(<<>>), ClosureCaptured(<<LocalVariable("y", TBool, TRUE)>>)}

\* HashMap::get: the entry whose key hashes like ty and is == to it.  An
\* entry whose key is == to ty but hashes differently is found only if the
\* two hashes happen to probe the same bucket, so it may or may not be.
HashMapGet(map, ty) ==
    LET hit == {i \in 1..Len(map) :
                   TypeEq(map[i].key, ty) /\ TypeHash(map[i].key) = TypeHash(ty)}
        chance == {i \in 1..Len(map) :
                      TypeEq(map[i].key, ty) /\ TypeHash(map[i].key) # TypeHash(ty)}
    IN  IF hit # {}
        THEN {Some(map[CHOOSE i \in hit : \A j \in hit : i <= j].val)}
        ELSE {NoneOpt} \cup {Some(map[i].val) : i \in chance}

\* HashMap::insert of a key that get did not find
HashMapInsert(map, ty, val) == Append(map, [key |-> ty, val |-> val])

\* GIRGenerator::maybe_get_iface_impls
maybe_get_iface_impls(map, ty) == HashMapGet(map, ty)

\* GIRGenerator::get_iface_impls
GetIfaceImpls ==
    \E ty \in ImplTypes :
        \E impls \in maybe_get_iface_impls(iface_impls, ty) :
            /\ op' = "get_iface_impls"
            /\ input' = [ty |-> ty]
            /\ IF impls.some
               THEN /\ res' = [ty |-> ty, before |-> iface_impls, impls |-> impls]
                    /\ UNCHANGED iface_impls
               ELSE /\ Len(iface_impls) < MaxTables
                    /\ LET created == IFaceImpls(ty, Len(iface_impls) + 1)
                       IN  /\ iface_impls' = HashMapInsert(iface_impls, ty, created)
                           /\ res' = [ty |-> ty, before |-> iface_impls,
                                      impls |-> Some(created)]
            /\ UNCHANGED <<importVars, driverVars, frontVars>>

MaybeGetIfaceImpls ==
    \E ty \in ImplTypes :
        \E impls \in maybe_get_iface_impls(iface_impls, ty) :
            /\ op' = "maybe_get_iface_impls"
            /\ input' = [ty |-> ty]
            /\ res' = [ty |-> ty, before |-> iface_impls, impls |-> impls]
            /\ UNCHANGED <<iface_impls, importVars, driverVars, frontVars>>

\* get_iface_impls and maybe_get_iface_impls called in any order
ImplSpecInit ==
    /\ op = "none" /\ input = NoCall /\ res = NoCall
    /\ DriverInit(NoProgram) /\ NoImports /\ NoImpls /\ NoFrontEnd
ImplNext == GetIfaceImpls \/ MaybeGetIfaceImpls
ImplSpec == ImplSpecInit /\ [][ImplNext]_vars

\* the tables the map held for exactly that type before the call
TablesOf(map, ty) == {map[i].val : i \in {j \in 1..Len(map) : map[j].key = ty}}

\* C17: get_iface_impls(T) never fails; for a type with no entry it creates,
\* stores and returns an empty table; every later query for the same type
\* returns that same table; the map never holds more than one table for a
\* type, and maybe_get_iface_impls never changes the map.
C17_OneTablePerType ==
    /\ \A i, j \in 1..Len(iface_impls) :
          i # j => iface_impls[i].key # iface_impls[j].key
    /\ op \in {"get_iface_impls", "maybe_get_iface_impls"} =>
          /\ TablesOf(res.before, res.ty) # {} =>
                (res.impls.some /\ TablesOf(res.before, res.ty) = {res.impls.val})
          /\ op = "maybe_get_iface_impls" =>
                /\ iface_impls = res.before
                /\ TablesOf(res.before, res.ty) = {} => ~res.impls.some
          /\ op = "get_iface_impls" =>
                /\ res.impls.some
                /\ TablesOf(res.before, res.ty) = {} =>
                      /\ res.impls.val = IFaceImpls(res.ty, Len(res.before) + 1)
                      /\ iface_impls = Append(res.before,
                                              [key |-> res.ty, val |-> res.impls.val])

\* ---------------------------------------------------------------------
\* Import passes (src/src/mir/generator/passes/import.rs)
\* ---------------------------------------------------------------------

\* longest import list of a module
MaxImports == 1

\* paths of the modules of the program, and a path no module has
ModulePaths == {"A", "B"}
ImportPaths == ModulePaths \cup {"X"}

\* ast::module::Import: a module path and a symbol; "+" is the glob
Import(path, sym) == [path |-> path, symbol |-> sym]
ImportSymbols == {"T", "f", "+"}
\* the imports a module may hold: from the other module or from no module
Imports(self) ==
    {Import(p, s) : p \in ImportPaths \ {self}, s \in ImportSymbols}

\* a class or function, known by the module declaring it and its name
Symbol(path, name) == [mod |-> path, name |-> name]

\* One element of Vec<(Module, MIRGenerator)>: the module's path and pending
\* imports (Module) and the builder's module: declared types and functions
\* in the iteration order of their HashMap, and what was imported so far.
\* Classes are modelled without methods.
ModuleGen(path, types, functions, imports) ==
    [path |-> path, types |-> types, functions |-> functions,
     imported_types |-> {}, imported_func |-> {}, imports |-> imports]

TypeTables == {<<>>, <<"T">>, <<"T", "U">>, <<"U", "T">>}
FunctionTables == {<<>>, <<"f">>}

ModuleGens(path) ==
    {ModuleGen(path, ts, fs, is) :
        ts \in TypeTables, fs \in FunctionTables,
        is \in SeqsUpTo(Imports(path), MaxImports)}

\* the module lists: modules A and B in either order
ModuleLists(a, b) == {<<a, b>>, <<b, a>>}

\* Vec::swap_remove: removes element i (from 1) and puts the last one there
swap_remove(v, i) ==
    [removed |-> v[i],
     rest |-> SubSeq(IF i = Len(v) THEN v ELSE [v EXCEPT ![i] = v[Len(v)]],
                     1, Len(v) - 1)]

\* the names a module already uses for types / for functions
TypeNames(gen) == SeqRange(gen.types) \cup {c.name : c \in gen.imported_types}
FunctionNames(gen) ==
    SeqRange(gen.functions) \cup {f.name : f \in gen.imported_func}

\* MIRBuilder::add_imported_class: refused when the name already exists in
\* the current module
add_imported_class(gen, class) ==
    IF class.name \in TypeNames(gen)
    THEN [some |-> FALSE, gen |-> gen]
    ELSE [some |-> TRUE,
          gen |-> [gen EXCEPT !.imported_types = @ \cup {class}]]

\* MIRBuilder::add_imported_function
add_imported_function(gen, func) ==
    IF func.name \in FunctionNames(gen)
    THEN [some |-> FALSE, gen |-> gen]
    ELSE [some |-> TRUE,
          gen |-> [gen EXCEPT !.imported_func = @ \cup {func}]]

\* MIRBuilder::find_class / find_global: a declaration of the module itself
builder_find_class(gen, name) ==
    IF name \in SeqRange(gen.types)
    THEN Some(Symbol(gen.path, name)) ELSE NoneOpt
builder_find_global(gen, name) ==
    IF name \in SeqRange(gen.functions)
    THEN Some(Symbol(gen.path, name)) ELSE NoneOpt

\* modules.iter().find(|(module, _)| &*module.path == path)
find_module(mods, path) ==
    LET hits == {i \in 1..Len(mods) : mods[i].path = path}
    IN IF hits = {} THEN NoneOpt
       ELSE Some(mods[CHOOSE i \in hits : \A j \in hits : i <= j])

Left(v) == [left |-> TRUE, val |-> v]
Right(v) == [left |-> FALSE, val |-> v]

find_class(mods, path, name) ==
    LET found == find_module(mods, path)
    IN IF found.some
       THEN IF name = "+"
            THEN Right([i \in 1..Len(found.val.types) |->
                           Symbol(path, found.val.types[i])])
            ELSE Left(builder_find_class(found.val, name))
       ELSE Left(NoneOpt)

find_func(mods, path, name) ==
    LET found == find_module(mods, path)
    IN IF found.some
       THEN IF name = "+"
            THEN Right([i \in 1..Len(found.val.functions) |->
                           Symbol(path, found.val.functions[i])])
            ELSE Left(builder_find_global(found.val, name))
       ELSE Left(NoneOpt)

\* classes.iter().try_for_each(add_imported_class): stops at the first None
RECURSIVE try_add_classes(_, _, _)
try_add_classes(gen, classes, k) ==
    IF k > Len(classes) THEN [some |-> TRUE, gen |-> gen]
    ELSE LET r == add_imported_class(gen, classes[k])
         IN IF r.some THEN try_add_classes(r.gen, classes, k + 1) ELSE r

\* funcs.iter().try_for_each(add_imported_function)
RECURSIVE try_add_functions(_, _, _)
try_add_functions(gen, funcs, k) ==
    IF k > Len(funcs) THEN [some |-> TRUE, gen |-> gen]
    ELSE LET r == add_imported_function(gen, funcs[k])
         IN IF r.some THEN try_add_functions(r.gen, funcs, k + 1) ELSE r

\* the closure of class_imports: whether the import is drained, and the
\* importing module afterwards
class_imports_cond(mods, gen, imp) ==
    LET found == find_class(mods, imp.path, imp.symbol)
    IN IF found.left
       THEN IF found.val.some
            THEN LET r == add_imported_class(gen, found.val.val)
                 IN [drain |-> r.some, gen |-> r.gen]
            ELSE [drain |-> FALSE, gen |-> gen]
       ELSE [drain |-> FALSE,
             gen |-> try_add_classes(gen, found.val, 1).gen]

\* the closure of function_imports
function_imports_cond(mods, gen, imp) ==
    LET found == find_func(mods, imp.path, imp.symbol)
    IN IF found.left
       THEN IF found.val.some
            THEN LET r == add_imported_function(gen, found.val.val)
                 IN [drain |-> r.some, gen |-> r.gen]
            ELSE [drain |-> FALSE, gen |-> gen]
       ELSE LET r == try_add_functions(gen, found.val, 1)
            IN [drain |-> r.some, gen |-> r.gen]

cond(pass, mods, gen, imp) ==
    IF pass = "class_imports" THEN class_imports_cond(mods, gen, imp)
    ELSE function_imports_cond(mods, gen, imp)

\* module.imports.drain_filter(|i| cond(modules, &mut gen, i)): the imports
\* from position k on are tried in order, kept holds the ones not drained
RECURSIVE drain_filter(_, _, _, _, _)
drain_filter(pass, mods, gen, kept, k) ==
    IF k > Len(gen.imports) THEN [gen EXCEPT !.imports = kept]
    ELSE LET r == cond(pass, mods, gen, gen.imports[k])
         IN drain_filter(pass, mods, r.gen,
                         IF r.drain THEN kept ELSE Append(kept, gen.imports[k]),
                         k + 1)

\* the loop of drain_mod_imports from index i (from 0) up to index last
RECURSIVE drain_loop(_, _, _, _)
drain_loop(pass, mods, i, last) ==
    IF i > last THEN mods
    ELSE LET j == IF i = Len(mods) THEN 0 ELSE i
             r == swap_remove(mods, j + 1)
             done == drain_filter(pass, r.rest, r.removed, <<>>, 1)
         IN drain_loop(pass, Append(r.rest, done), i + 1, last)

\* drain_mod_imports without the extra round for the module moved to index 0
drain_mod_imports_len_rounds(pass, mods) ==
    drain_loop(pass, mods, 0, Len(mods) - 1)
\* for i in 0..(modules.len() + 1)
drain_mod_imports(pass, mods) == drain_loop(pass, mods, 0, Len(mods))

class_imports(mods) == drain_mod_imports("class_imports", mods)
function_imports(mods) == drain_mod_imports("function_imports", mods)

\* the full path of an import: the module path with the symbol pushed
full_path(imp) == <<imp.path, imp.symbol>>

RECURSIVE ImportErrors(_, _)
ImportErrors(mods, k) ==
    IF k > Len(mods) THEN <<>>
    ELSE [i \in 1..Len(mods[k].imports) |-> full_path(mods[k].imports[i])]
         \o ImportErrors(mods, k + 1)

\* ensure_no_imports naming only the module path
ensure_no_imports_module_path(mods) ==
    LET errs == ImportErrors(mods, 1)
    IN IF errs = <<>> THEN [ok |-> TRUE, errors |-> <<>>]
       ELSE [ok |-> FALSE,
             errors |-> [i \in 1..Len(errs) |-> <<errs[i][1]>>]]
ensure_no_imports(mods) ==
    LET errs == ImportErrors(mods, 1)
    IN IF errs = <<>> THEN [ok |-> TRUE, errors |-> <<>>]
       ELSE [ok |-> FALSE, errors |-> errs]

\* --- the import passes in the order they run ---
ClassImports ==
    /\ import_stage = "class_imports"
    /\ modules' = class_imports(modules)
    /\ import_stage' = "function_imports"
    /\ UNCHANGED <<import_result, callVars, iface_impls, driverVars, frontVars>>

FunctionImports ==
    /\ import_stage = "function_imports"
    /\ modules' = function_imports(modules)
    /\ import_stage' = "ensure_no_imports"
    /\ UNCHANGED <<import_result, callVars, iface_impls, driverVars, frontVars>>

EnsureNoImports ==
    /\ import_stage = "ensure_no_imports"
    /\ import_result' = ensure_no_imports(modules)
    /\ import_stage' = "done"
    /\ UNCHANGED <<modules, callVars, iface_impls, driverVars, frontVars>>

\* every program of two modules; input keeps the program as it was given
ImportSpecInit ==
    /\ \E a \in ModuleGens("A"), b \in ModuleGens("B") :
           modules \in ModuleLists(a, b)
    /\ import_stage = "class_imports" /\ import_result = NoCall
    /\ op = "imports" /\ input = modules /\ res = NoCall
    /\ DriverInit(NoProgram) /\ NoImpls /\ NoFrontEnd
ImportNext == ClassImports \/ FunctionImports \/ EnsureNoImports
ImportSpec == ImportSpecInit /\ [][ImportNext]_vars

\* the module of the list with the given path
ModuleAt(mods, path) == find_module(mods, path).val

\* The program of the import cycle: module A declares type T and imports
\* function f from B, module B declares f and imports type T from A; the
\* modules have no other import and do not declare the imported names.
CycleProgram(mods) ==
    /\ "T" \in SeqRange(ModuleAt(mods, "A").types)
    /\ ModuleAt(mods, "A").functions = <<>>
    /\ ModuleAt(mods, "A").imports = <<Import("B", "f")>>
    /\ "T" \notin SeqRange(ModuleAt(mods, "B").types)
    /\ ModuleAt(mods, "B").functions = <<"f">>
    /\ ModuleAt(mods, "B").imports = <<Import("A", "T")>>

\* C18: In the import cycle (A declares T and imports f from B, B imports T
\* from A and declares f), whichever module comes first in the list: the
\* type-import stage resolves B's import of T to the class of A and leaves
\* A's import of f pending, the value-import stage resolves A's import of f
\* to the function of B, and ensure_no_imports then returns Ok without error.
C18_ImportCycleResolves ==
    (op = "imports" /\ CycleProgram(input)) =>
        /\ import_stage # "class_imports" =>
              /\ ModuleAt(modules, "B").imports = <<>>
              /\ ModuleAt(modules, "B").imported_types = {Symbol("A", "T")}
        /\ import_stage = "function_imports" =>
              ModuleAt(modules, "A").imports = <<Import("B", "f")>>
        /\ import_stage \in {"ensure_no_imports", "done"} =>
              /\ ModuleAt(modules, "A").imports = <<>>
              /\ ModuleAt(modules, "A").imported_func = {Symbol("B", "f")}
        /\ import_stage = "done" =>
              import_result = [ok |-> TRUE, errors |-> <<>>]

\* the cycle went through both stages and the final check, B first in the list
C18_Witness ==
    /\ op = "imports" /\ CycleProgram(input)
    /\ input[1].path = "B"
    /\ import_stage = "done"
    /\ import_result.ok
    /\ ModuleAt(modules, "A").imported_func = {Symbol("B", "f")}
    /\ ModuleAt(modules, "B").imported_types = {Symbol("A", "T")}

\* the imports of all modules of a list, as (module index, position) pairs
ImportSlots(mods) ==
    UNION {{<<k, i>> : i \in 1..Len(mods[k].imports)} : k \in 1..Len(mods)}

\* the pending imports of a list with the given full path
PendingWith(mods, fp) ==
    {s \in ImportSlots(mods) : full_path(mods[s[1]].imports[s[2]]) = fp}

\* the errors naming the given full path
ErrorsWith(errs, fp) == {i \in 1..Len(errs) : errs[i] = fp}

FullPaths == {<<p, s>> : p \in ImportPaths, s \in ImportSymbols}

\* an import no stage can resolve: no such module, or a named symbol the
\* source module declares neither as a class nor as a function
Unresolvable(mods, imp) ==
    \/ ~find_module(mods, imp.path).some
    \/ /\ imp.symbol # "+"
       /\ imp.symbol \notin SeqRange(ModuleAt(mods, imp.path).types)
       /\ imp.symbol \notin SeqRange(ModuleAt(mods, imp.path).functions)

\* C19: After both import stages, ensure_no_imports reports for every full
\* path as many errors as imports with that path are still pending (one error
\* per pending import, none for a resolved one), every error names a full
\* path (module path and symbol), an import of a symbol that does not exist
\* is among the errors, and the result is Ok exactly when nothing is pending.
C19_OneErrorPerPendingImport ==
    (op = "imports" /\ import_stage = "done") =>
        /\ \A fp \in FullPaths :
              Cardinality(ErrorsWith(import_result.errors, fp))
                  = Cardinality(PendingWith(modules, fp))
        /\ \A i \in 1..Len(import_result.errors) :
              import_result.errors[i] \in FullPaths
        /\ \A s \in ImportSlots(input) :
              Unresolvable(input, input[s[1]].imports[s[2]]) =>
                  ErrorsWith(import_result.errors,
                             full_path(input[s[1]].imports[s[2]])) # {}
        /\ import_result.ok <=> ImportSlots(modules) = {}

\* of two imports one was resolved and the other one got the only error
C19_Witness ==
    /\ op = "imports" /\ import_stage = "done"
    /\ Cardinality(ImportSlots(input)) = 2
    /\ Cardinality(ImportSlots(modules)) = 1
    /\ ~import_result.ok
    /\ Len(import_result.errors) = 1

\* every class and every function of the source module is among the symbols
\* imported by the module
AllImportedFrom(gen, source) ==
    /\ \A i \in 1..Len(source.types) :
          Symbol(source.path, source.types[i]) \in gen.imported_types
    /\ \A i \in 1..Len(source.functions) :
          Symbol(source.path, source.functions[i]) \in gen.imported_func

\* C20: After both import stages and the final check, every glob import of
\* an existing module either has added every class and every function of
\* the source module to the importing module, or is still pending and
\* reported as an invalid import.
C20_GlobImportsEverything ==
    (op = "imports" /\ import_stage = "done") =>
        \A s \in ImportSlots(input) :
            LET imp == input[s[1]].imports[s[2]]
                gen == ModuleAt(modules, input[s[1]].path)
            IN (imp.symbol = "+" /\ find_module(input, imp.path).some) =>
                   \/ AllImportedFrom(gen, ModuleAt(modules, imp.path))
                   \/ /\ imp \in SeqRange(gen.imports)
                      /\ ErrorsWith(import_result.errors, full_path(imp)) # {}

\* ---------------------------------------------------------------------
\* MIR generator (src/src/mir/generator/mod.rs, builder.rs, src/src/mir/nodes.rs)
\* ---------------------------------------------------------------------

\* --- ast::expression::Expression, the forms that are lowered here ---
\* ast::literal::Literal: its type and which literal of the type it is
Lit(ty, v) == [type |-> ty, value |-> v]
ELiteral(literal) == [e |-> "Literal", literal |-> literal]
EBlock(exprs) == [e |-> "Block", expressions |-> exprs]
EBreak(expr) == [e |-> "Break", expr |-> expr]
EFor(condition, body) == [e |-> "For", condition |-> condition, body |-> body]
EIf(condition, then_branch, else_branch) ==
    [e |-> "If", condition |-> condition, then_branch |-> then_branch,
     else_branch |-> else_branch]
EReturn(val) == [e |-> "Return", val |-> val]
EWhen(value, branches, else_branch) ==
    [e |-> "When", value |-> value, branches |-> branches,
     else_branch |-> else_branch]
EVarDef(name, initializer) ==
    [e |-> "VarDef", name |-> name, initializer |-> initializer]
EVariable(name) == [e |-> "Variable", name |-> name]

\* --- mir::nodes ---
\* MIRVariable; id tells apart two variables of the same name (Rc identity)
MIRVariable(name, ty, mutable, id) ==
    [name |-> name, type |-> ty, mutable |-> mutable, id |-> id]

\* impl PartialEq for MIRType
MIRTypeEq(a, b) == b = "Any" \/ a = "Any" \/ a = b

\* MIRExpression
MLiteral(literal) == [x |-> "Literal", literal |-> literal]
MBinary(left, operator, right) ==
    [x |-> "Binary", left |-> left, operator |-> operator, right |-> right]
MPhi(pairs) == [x |-> "Phi", pairs |-> pairs]
MVarGet(var) == [x |-> "VarGet", var |-> var]
MVarStore(var, value) == [x |-> "VarStore", var |-> var, value |-> value]

\* MIRExpression::get_type
RECURSIVE mir_get_type(_)
mir_get_type(x) ==
    CASE x.x = "Literal" -> x.literal.type
      [] x.x = "Binary" ->
            IF x.operator = "EqualEqual" THEN "Bool" ELSE mir_get_type(x.left)
      [] x.x = "Phi" -> mir_get_type(x.pairs[1][1])
      [] x.x = "VarGet" -> x.var.type
      [] x.x = "VarStore" -> x.var.type

\* MIRFlow
FlowNone == [flow |-> "None"]
Jump(b) == [flow |-> "Jump", to |-> b]
Branch(condition, then_b, else_b) ==
    [flow |-> "Branch", condition |-> condition, then_b |-> then_b,
     else_b |-> else_b]
Switch(cases, default) == [flow |-> "Switch", cases |-> cases, default |-> default]
FlowReturn(v) == [flow |-> "Return", value |-> v]

\* MIRBlock
MIRBlock(name) == [name |-> name, expressions |-> <<>>, last |-> FlowNone]

\* a block name: the given name, with the number appended by append_block
\* when the name was in use (0: nothing appended)
BlockName(name, n) == <<name, n>>

\* The generator with the function it is lowering: the function's blocks in
\* the order they were appended and its variable table, the builder's
\* position, the scopes, the loop fields, and the error that ended lowering.
\* phis, terminators and breaks record what was emitted where:
\*   phis: the phi nodes built, with the block the builder stood on;
\*   terminators: the terminators set by return and break expressions;
\*   breaks: the breaks lowered, with the blocks of the loop around them;
\*   loops: the blocks of the loops being lowered, innermost last;
\*   fors: the loops lowered, with the variable the for expression loads.
NewGenerator(ret_type) ==
    [blocks |-> <<MIRBlock(BlockName("entry", 0))>>,
     variables |-> <<>>,
     block |-> BlockName("entry", 0),
     environments |-> <<{}, {}>>,
     is_in_loop |-> FALSE,
     current_loop_cont_block |-> NoneOpt,
     ret_type |-> ret_type,
     error |-> "",
     phis |-> <<>>, terminators |-> <<>>, breaks |-> <<>>, loops |-> <<>>,
     fors |-> <<>>]

BlockIndex(g, name) == CHOOSE i \in 1..Len(g.blocks) : g.blocks[i].name = name
BlockAt(g, name) == g.blocks[BlockIndex(g, name)]

\* MIRFunction::append_block: the new generator and the name of the block
append_block(g, name) ==
    LET used == \E i \in 1..Len(g.blocks) : g.blocks[i].name = BlockName(name, 0)
        n == IF used THEN BlockName(name, Len(g.blocks)) ELSE BlockName(name, 0)
    IN [g |-> [g EXCEPT !.blocks = Append(@, MIRBlock(n))], name |-> n]

\* MIRBuilder::set_return
set_return(g, ret) == [g EXCEPT !.blocks[BlockIndex(g, g.block)].last = ret]
\* MIRBuilder::set_block
set_block(g, b) == [g EXCEPT !.block = b]
\* MIRBuilder::insert_at_ptr
insert_at_ptr(g, expr) ==
    [g EXCEPT !.blocks[BlockIndex(g, g.block)].expressions = Append(@, expr)]
\* MIRBuilder::build_store: builds the expression, emits nothing
build_store(var, value) == MVarStore(var, value)
\* MIRBuilder::build_load
build_load(var) == MVarGet(var)
\* MIRBuilder::build_phi
build_phi(pairs) == MPhi(pairs)

none_const == MLiteral(Lit("None", 0))

begin_scope(g) == [g EXCEPT !.environments = Append(@, {})]
end_scope(g) ==
    [g EXCEPT !.environments = SubSeq(@, 1, Len(@) - 1)]

\* HashMap::insert on a scope: the binding of the name is replaced
EnvInsert(env, var) == {v \in env : v.name # var.name} \cup {var}

\* insert_variable: the variable is inserted first, the error comes after
insert_variable(g, var, allow_redefine) ==
    LET top == Len(g.environments)
        was_defined == \E v \in g.environments[top] : v.name = var.name
        inserted == [g EXCEPT !.environments[top] = EnvInsert(@, var)]
    IN IF was_defined /\ ~allow_redefine
       THEN [inserted EXCEPT !.error = "Cannot redefine variable in the same scope."]
       ELSE inserted

\* define_variable: insert_variable(.., true, ..).unwrap_or(())
define_variable(g, name, mutable, ty) ==
    LET def == MIRVariable(name, ty, mutable, Len(g.variables) + 1)
        added == [g EXCEPT !.variables = Append(@, def)]
    IN [g |-> insert_variable(added, def, TRUE), var |-> def]

\* find_var: all scopes, starting at the top
RECURSIVE find_var_from(_, _, _)
find_var_from(g, name, k) ==
    IF k = 0 THEN NoneOpt
    ELSE IF \E v \in g.environments[k] : v.name = name
         THEN Some(CHOOSE v \in g.environments[k] : v.name = name)
         ELSE find_var_from(g, name, k - 1)
find_var(g, name) == find_var_from(g, name, Len(g.environments))

\* find_or_create_var
find_or_create_var(g, ty, name) ==
    LET found == find_var(g, name)
        made == define_variable(g, name, TRUE, ty)
        after == IF found.some THEN g ELSE made.g
        var == IF found.some THEN found.val ELSE made.var
    IN IF ~MIRTypeEq(var.type, ty)
       THEN [g |-> [after EXCEPT !.error =
                       "Break expressions + for body must have same type"],
             var |-> var]
       ELSE [g |-> after, var |-> var]

\* --- generate_expression ---
\* the result of lowering an expression: the generator afterwards and the
\* MIR expression; Failed stands for the Err that `?` hands upwards
Out(g, val) == [g |-> g, val |-> val]
Fail(g, msg) == Out([g EXCEPT !.error = msg], none_const)
Failed(g) == g.error # ""

RECURSIVE generate_expression(_, _)
RECURSIVE generate_block_items(_, _, _)
RECURSIVE generate_when_branches(_, _, _, _, _)

\* Expression::Block, the loop over all expressions but the last
generate_block_items(exprs, k, g) ==
    IF k >= Len(exprs) THEN g
    ELSE LET r == generate_expression(exprs[k], g)
         IN IF Failed(r.g) THEN r.g
            ELSE generate_block_items(exprs, k + 1, insert_at_ptr(r.g, r.val))

generate_block(expr, g) ==
    IF expr.expressions = <<>> THEN Out(g, none_const)
    ELSE LET items == generate_block_items(expr.expressions, 1, begin_scope(g))
         IN IF Failed(items) THEN Out(items, none_const)
            ELSE LET last == generate_expression(
                                 expr.expressions[Len(expr.expressions)], items)
                 IN IF Failed(last.g) THEN last
                    ELSE Out(end_scope(last.g), last.val)

\* Expression::Break
generate_break(expr, g) ==
    IF ~g.is_in_loop THEN Fail(g, "Break is only allowed in loops.")
    ELSE
    LET r == IF expr.expr.some THEN generate_expression(expr.expr.val, g)
             ELSE Out(g, none_const)
    IN IF Failed(r.g) THEN r
       ELSE
       LET body_alloca ==
               IF expr.expr.some
               THEN find_or_create_var(r.g, mir_get_type(r.val), "for-body")
               ELSE [g |-> r.g, var |-> NoneOpt]
       IN IF Failed(body_alloca.g) THEN Out(body_alloca.g, none_const)
          ELSE
          \* build_store(body_alloca, expression) is built and dropped
          LET to == Jump(body_alloca.g.current_loop_cont_block.val)
              jumped == set_return(body_alloca.g, to)
              noted == [jumped EXCEPT
                  !.terminators = Append(@, [block |-> jumped.block, last |-> to]),
                  !.breaks = Append(@,
                      [block |-> jumped.block, to |-> to.to,
                       loop |-> jumped.loops[Len(jumped.loops)],
                       value |-> IF expr.expr.some THEN Some(r.val) ELSE NoneOpt,
                       var |-> IF expr.expr.some THEN Some(body_alloca.var)
                               ELSE NoneOpt])]
          IN Out(noted, none_const)

\* Expression::For
generate_for(expr, g) ==
    LET a1 == append_block(g, "forcond")
        a2 == append_block(a1.g, "forloop")
        a3 == append_block(a2.g, "forcont")
        cond_block == a1.name
        loop_block == a2.name
        cont_block == a3.name
        prev_cont_block == g.current_loop_cont_block
        was_in_loop == g.is_in_loop
        this == [cond_block |-> cond_block, loop_block |-> loop_block,
                 cont_block |-> cont_block]
        g1 == [a3.g EXCEPT !.current_loop_cont_block = Some(cond_block),
                           !.is_in_loop = TRUE,
                           !.loops = Append(@, this)]
        g2 == set_block(set_return(g1, Jump(cond_block)), cond_block)
        c == generate_expression(expr.condition, g2)
    IN IF Failed(c.g) THEN c
       ELSE IF ~MIRTypeEq(mir_get_type(c.val), "Bool")
       THEN Fail(c.g, "For condition must be a boolean.")
       ELSE
       LET g3 == set_block(
                     set_return(c.g, Branch(c.val, loop_block, cont_block)),
                     loop_block)
           body == generate_expression(expr.body, g3)
       IN IF Failed(body.g) THEN body
          ELSE
          LET body_alloca ==
                  find_or_create_var(body.g, mir_get_type(body.val), "for-body")
          IN IF Failed(body_alloca.g) THEN Out(body_alloca.g, none_const)
             ELSE
             LET store == build_store(body_alloca.var, body.val)
                 g4 == set_return(insert_at_ptr(body_alloca.g, store),
                                  Jump(cond_block))
                 g5 == [g4 EXCEPT !.current_loop_cont_block = prev_cont_block,
                                  !.is_in_loop = was_in_loop,
                                  !.loops = SubSeq(@, 1, Len(@) - 1),
                                  !.fors = Append(@,
                                      [loop |-> this, var |-> body_alloca.var])]
             IN Out(set_block(g5, cont_block), build_load(body_alloca.var))

\* Expression::If
generate_if(expr, g) ==
    LET c == generate_expression(expr.condition, g)
    IN IF Failed(c.g) THEN c
       ELSE IF mir_get_type(c.val) # "Bool"
       THEN Fail(c.g, "If condition must be a boolean")
       ELSE
       LET a1 == append_block(c.g, "then")
           a2 == append_block(a1.g, "else")
           a3 == append_block(a2.g, "cont")
           cont_b == a3.name
           g1 == set_block(set_return(a3.g, Branch(c.val, a1.name, a2.name)),
                           a1.name)
           then_val == generate_expression(expr.then_branch, g1)
       IN IF Failed(then_val.g) THEN then_val
          ELSE
          LET then_b == then_val.g.block
              g2 == set_block(set_return(then_val.g, Jump(cont_b)), a2.name)
              else_val == IF expr.else_branch.some
                          THEN generate_expression(expr.else_branch.val, g2)
                          ELSE Out(g2, none_const)
          IN IF Failed(else_val.g) THEN else_val
             ELSE
             LET else_b == IF expr.else_branch.some THEN else_val.g.block
                           ELSE a2.name
                 g3 == IF expr.else_branch.some
                       THEN set_block(set_return(else_val.g, Jump(cont_b)), cont_b)
                       ELSE g2
                 same == expr.else_branch.some
                         /\ MIRTypeEq(mir_get_type(then_val.val),
                                      mir_get_type(else_val.val))
                 pairs == <<<<then_val.val, then_b>>, <<else_val.val, else_b>>>>
                 g4 == IF expr.else_branch.some
                       THEN insert_at_ptr(set_block(g3, else_b), else_val.val)
                       ELSE g3
                 g5 == insert_at_ptr(set_block(g4, then_b), then_val.val)
                 g6 == set_return(set_block(g5, else_b), Jump(cont_b))
             IN IF same
                THEN Out([g3 EXCEPT !.phis = Append(@,
                              [pairs |-> pairs, merge |-> cont_b])],
                         build_phi(pairs))
                ELSE Out(set_block(g6, cont_b), none_const)

\* Expression::Return
generate_return(expr, g) ==
    LET value == IF expr.val.some THEN generate_expression(expr.val.val, g)
                 ELSE Out(g, none_const)
    IN IF Failed(value.g) THEN value
       ELSE
       LET type_ == IF expr.val.some THEN mir_get_type(value.val) ELSE "None"
           ret == FlowReturn(value.val)
           set == set_return(value.g, ret)
       IN IF ~MIRTypeEq(type_, g.ret_type)
          THEN Fail(value.g, "Return expression in function has wrong type")
          ELSE Out([set EXCEPT !.terminators =
                        Append(@, [block |-> set.block, last |-> ret])],
                   none_const)

\* Expression::When, the loop over the branches; w holds the locals of the
\* arm: start_b, cont_b, value, val_type, branch_type
generate_when_branches(branches, k, g, w, acc) ==
    IF Failed(g) \/ k > Len(branches) THEN [g |-> g, cases |-> acc.cases,
                                           phi_nodes |-> acc.phi_nodes]
    ELSE
    LET val == generate_expression(branches[k][1], set_block(g, w.start_b))
    IN IF Failed(val.g) THEN generate_when_branches(branches, k, val.g, w, acc)
       ELSE IF ~MIRTypeEq(mir_get_type(val.val), w.val_type)
       THEN generate_when_branches(branches, k,
                [val.g EXCEPT !.error =
                    "Branches of when must be of same type as the value compared."],
                w, acc)
       ELSE
       LET test == MBinary(val.val, "EqualEqual", w.value)
           a == append_block(val.g, "when-br")
           branch_b == a.name
           branch_val == generate_expression(branches[k][2],
                                             set_block(a.g, branch_b))
       IN IF Failed(branch_val.g)
          THEN generate_when_branches(branches, k, branch_val.g, w, acc)
          ELSE IF ~MIRTypeEq(mir_get_type(branch_val.val), w.branch_type)
          THEN generate_when_branches(branches, k,
                   [branch_val.g EXCEPT !.error =
                       "Branch results must be of same type."], w, acc)
          ELSE generate_when_branches(branches, k + 1,
                   set_return(branch_val.g, Jump(w.cont_b)), w,
                   [cases |-> Append(acc.cases, <<test, branch_b>>),
                    phi_nodes |-> Append(acc.phi_nodes,
                                         <<branch_val.val, branch_b>>)])

generate_when(expr, g) ==
    LET start_b == g.block
        value == generate_expression(expr.value, g)
    IN IF Failed(value.g) THEN value
       ELSE
       LET a1 == append_block(value.g, "when-else")
           a2 == append_block(a1.g, "when-cont")
           else_b == a1.name
           cont_b == a2.name
           else_val == generate_expression(expr.else_branch,
                                           set_block(a2.g, else_b))
       IN IF Failed(else_val.g) THEN else_val
          ELSE
          LET w == [start_b |-> start_b, cont_b |-> cont_b,
                    value |-> value.val,
                    val_type |-> mir_get_type(value.val),
                    branch_type |-> mir_get_type(else_val.val)]
              br == generate_when_branches(expr.branches, 1,
                        set_return(else_val.g, Jump(cont_b)), w,
                        [cases |-> <<>>, phi_nodes |-> <<>>])
          IN IF Failed(br.g) THEN Out(br.g, none_const)
             ELSE
             LET phi_nodes == Append(br.phi_nodes, <<else_val.val, else_b>>)
                 g1 == set_return(set_block(br.g, start_b),
                                  Switch(br.cases, else_b))
                 g2 == set_block(g1, cont_b)
             IN Out([g2 EXCEPT !.phis = Append(@,
                         [pairs |-> phi_nodes, merge |-> cont_b])],
                    build_phi(phi_nodes))

\* Expression::VarDef
generate_var_def(expr, g) ==
    LET init == generate_expression(expr.initializer, g)
    IN IF Failed(init.g) THEN init
       ELSE LET d == define_variable(init.g, expr.name, TRUE,
                                     mir_get_type(init.val))
            IN Out(d.g, build_store(d.var, init.val))

\* Expression::Variable
generate_variable(expr, g) ==
    LET var == find_var(g, expr.name)
    IN IF var.some THEN Out(g, build_load(var.val))
       ELSE Fail(g, "Variable is not defined")

generate_expression(expr, g) ==
    CASE expr.e = "Block" -> generate_block(expr, g)
      [] expr.e = "Break" -> generate_break(expr, g)
      [] expr.e = "For" -> generate_for(expr, g)
      [] expr.e = "If" -> generate_if(expr, g)
      [] expr.e = "Literal" -> Out(g, MLiteral(expr.literal))
      [] expr.e = "Return" -> generate_return(expr, g)
      [] expr.e = "When" -> generate_when(expr, g)
      [] expr.e = "VarDef" -> generate_var_def(expr, g)
      [] expr.e = "Variable" -> generate_variable(expr, g)

\* generate_function for a function without parameters: the generator when
\* the function is done; error tells whether it returned Err
generate_function(body_ast, ret_type) ==
    LET body == generate_expression(body_ast, NewGenerator(ret_type))
    IN IF Failed(body.g) THEN body.g
       ELSE IF ret_type # "None"
       THEN IF MIRTypeEq(ret_type, mir_get_type(body.val))
            THEN end_scope(set_return(body.g, FlowReturn(body.val)))
            ELSE [body.g EXCEPT !.error =
                     "Function return type does not match body type."]
       ELSE end_scope(insert_at_ptr(body.g, body.val))

\* --- the function bodies lowered ---
\* nesting depth of the bodies
MaxExprDepth == 2

LitInt == ELiteral(Lit("I64", 1))
LitTwo == ELiteral(Lit("I64", 2))
LitBool == ELiteral(Lit("Bool", 1))

\* expressions of nesting depth up to n: conditions and compared values are
\* literals, blocks hold up to two expressions, a when has one branch; of two
\* subexpressions one is nested and the other a leaf
Leaves == {LitInt, LitBool, EVariable("x"), EBreak(NoneOpt), EReturn(NoneOpt)}

RECURSIVE Expressions(_)
Expressions(n) ==
    IF n = 0
    THEN Leaves
    ELSE LET sub == Expressions(n - 1)
             pairs == (sub \X Leaves) \cup (Leaves \X sub)
         IN sub
            \cup {EIf(LitBool, a, NoneOpt) : a \in sub}
            \cup {EIf(LitBool, ab[1], Some(ab[2])) : ab \in pairs}
            \cup {EFor(LitBool, a) : a \in sub}
            \cup {EBlock(<<a>>) : a \in sub}
            \cup {EBlock(<<ab[1], ab[2]>>) : ab \in pairs}
            \cup {EBreak(Some(a)) : a \in sub}
            \cup {EReturn(Some(a)) : a \in sub}
            \cup {EWhen(LitInt, <<<<LitInt, ab[1]>>>>, ab[2]) : ab \in pairs}
            \cup {EVarDef("x", a) : a \in sub}

\* bodies about scopes: a name defined twice in one scope, in a nested block,
\* and used again after the nested block has ended
SameScopeBody == EBlock(<<EVarDef("x", LitInt), EVarDef("x", LitBool), EVariable("x")>>)
ShadowBody ==
    EBlock(<<EVarDef("x", LitInt), EBlock(<<EVarDef("x", LitBool), EVariable("x")>>)>>)
ShadowEndBody ==
    EBlock(<<EVarDef("x", LitInt), EBlock(<<EVarDef("x", LitBool)>>), EVariable("x")>>)
ScopeBodies == {SameScopeBody, ShadowBody, ShadowEndBody}

\* bodies with a loop inside a loop: a break before, in and after the inner loop
NestedLoopBodies ==
    {EFor(LitBool, EBlock(<<a, EFor(LitBool, b), c>>)) :
        a \in {LitInt, EBreak(NoneOpt)},
        b \in {LitInt, EBreak(NoneOpt), EBreak(Some(LitInt))},
        c \in {LitInt, EBreak(NoneOpt), EBreak(Some(LitInt))}}

\* bodies with a loop whose block breaks with a value
BreakValueBodies ==
    {EFor(LitBool, EBlock(<<EBreak(Some(a)), b>>)) :
        a \in {LitTwo, LitBool}, b \in {LitInt, LitBool}}

Bodies ==
    Expressions(MaxExprDepth) \cup ScopeBodies \cup NestedLoopBodies
    \cup BreakValueBodies

ReturnTypes == {"None", "I64"}

LowerInit ==
    /\ op = "generate_function"
    /\ \E ret_type \in ReturnTypes :
          input \in {[body |-> b, ret_type |-> ret_type] :
                        b \in Bodies}

CallGenerateFunction ==
    /\ op = "generate_function" /\ res = NoCall
    /\ res' = generate_function(input.body, input.ret_type)
    /\ UNCHANGED <<op, input>>

LowerSpecInit ==
    LowerInit /\ res = NoCall /\ DriverInit(NoProgram) /\ NoImports /\ NoImpls /\ NoFrontEnd
LowerNext == CallGenerateFunction /\ UNCHANGED passVars
LowerSpec == LowerSpecInit /\ [][LowerNext]_vars

(***************************************************************************)
(* MIR generator: scopes, phi nodes, breaks and terminators.               *)
(***************************************************************************)
\* a function was lowered
Lowered == op = "generate_function" /\ res # NoCall

\* a block that defines the same name twice in a row in its own scope
Redefines(body) ==
    /\ body.e = "Block" /\ Len(body.expressions) >= 2
    /\ body.expressions[1].e = "VarDef"
    /\ body.expressions[1].initializer.e = "Literal"
    /\ body.expressions[2].e = "VarDef"
    /\ body.expressions[2].initializer.e = "Literal"
    /\ body.expressions[1].name = body.expressions[2].name

\* the expressions emitted into the entry block, and the value returned
EntryBlock == BlockAt(res, BlockName("entry", 0))

\* C21: Defining a name that the innermost scope already holds is rejected
\* with the redefinition error; defining it in a nested block is accepted and
\* the nested definition is the one a use inside the block loads; after the
\* nested block a use loads the outer variable again.
C21_RedefinitionRejected ==
    Lowered =>
        /\ Redefines(input.body) =>
              res.error = "Cannot redefine variable in the same scope."
        /\ (input.body = ShadowBody /\ input.ret_type = "None") =>
              /\ res.error = ""
              /\ EntryBlock.expressions[3] = MVarGet(MIRVariable("x", "Bool", TRUE, 2))
        /\ (input.body = ShadowEndBody /\ input.ret_type = "None") =>
              /\ res.error = ""
              /\ EntryBlock.expressions[3] = MVarGet(MIRVariable("x", "I64", TRUE, 1))

\* C22: Every (value, source block) pair of a phi node built for an if/else
\* or a when names a block of the function whose terminator is the jump to
\* the merge block the phi was built in.
C22_PhiSourcesJumpToMerge ==
    (Lowered /\ res.error = "") =>
        \A i \in 1..Len(res.phis) :
            \A k \in 1..Len(res.phis[i].pairs) :
                BlockAt(res, res.phis[i].pairs[k][2]).last
                    = Jump(res.phis[i].merge)

\* the break has a value
BreakHasValue(b) == b.value.some

\* the stores of the value into the variable emitted in the block
StoresIn(g, block, var, value) ==
    {i \in 1..Len(BlockAt(g, block).expressions) :
        BlockAt(g, block).expressions[i] = MVarStore(var, value)}

\* the variable the for expression of the loop loads after the loop
LoopVariable(g, loop) ==
    (CHOOSE f \in SeqRange(g.fors) : f.loop = loop).var

\* C23: For every `break <value>` of a lowered function, the block where the
\* break occurred holds a store of the value into the body variable of the
\* loop around it, the variable the for expression loads after the loop.
C23_BreakValueStored ==
    (Lowered /\ res.error = "") =>
        \A i \in 1..Len(res.breaks) :
            BreakHasValue(res.breaks[i]) =>
                StoresIn(res, res.breaks[i].block,
                         LoopVariable(res, res.breaks[i].loop),
                         res.breaks[i].value.val) # {}

\* C25: A break lowered inside a for loop sets the terminator of its block
\* to the jump to the continuation block of the innermost loop around it,
\* not to the block that evaluates the loop condition; a break outside any
\* loop is an error.
C25_BreakTargetsContinuation ==
    Lowered =>
        /\ res.error = "" =>
              \A i \in 1..Len(res.breaks) :
                  /\ res.breaks[i].to = res.breaks[i].loop.cont_block
                  /\ res.breaks[i].to # res.breaks[i].loop.cond_block
        /\ input.body = EBreak(NoneOpt) =>
              res.error = "Break is only allowed in loops."

\* C26: When generate_function has finished without error, every block in
\* which a return or a break set the terminator still ends with the
\* terminator that was set last by a return or break in that block.
C26_TerminatorsKept ==
    (Lowered /\ res.error = "") =>
        \A i \in 1..Len(res.terminators) :
            (\A k \in (i + 1)..Len(res.terminators) :
                 res.terminators[k].block # res.terminators[i].block) =>
                BlockAt(res, res.terminators[i].block).last
                    = res.terminators[i].last

(***************************************************************************)
(* Type::is_number and the predicates it is built from.                    *)
(***************************************************************************)
is_bool(self) == self.tag = "Bool"

is_var_with_marker(self, marker) ==
    IF self.tag = "Variable"
    THEN IF self.var.bound.kind = "Bound"
         THEN marker = self.var.bound.marker
         ELSE FALSE
    ELSE FALSE

is_signed_int(self) ==
    \/ self.tag \in {"I8", "I16", "I32", "I64"}
    \/ is_var_with_marker(self, "SignedInt")

is_unsigned_int(self) ==
    \/ self.tag \in {"U8", "U16", "U32", "U64"}
    \/ is_var_with_marker(self, "UnsignedInt")

is_float(self) ==
    \/ self.tag \in {"F32", "F64"}
    \/ is_var_with_marker(self, "Float")

is_int(self) ==
    \/ is_signed_int(self)
    \/ is_unsigned_int(self)
    \/ is_bool(self)
    \/ is_var_with_marker(self, "Integer")

is_number(self) ==
    is_int(self) \/ is_float(self) \/ is_var_with_marker(self, "Number")

\* the types the predicates are asked about: every primitive, a variable of
\* every bound, and types of the remaining variants
MarkerVariables == {Variable(0, "T", MarkerBound(b)) : b \in Bounds}
NumberInputs ==
    {Prim(tag) : tag \in PrimitiveTags} \cup MarkerVariables
        \cup {VarI, Adt("A", <<>>), Nullable(TI32), Nullable(TI64), RawPtr(TF64),
              TypeOf(Adt("A", <<>>))}

NumberOps == {"is_number", "is_int", "is_signed_int", "is_unsigned_int", "is_float"}

NumberInit == op \in NumberOps /\ input \in NumberInputs

CallIsNumber ==
    /\ op = "is_number" /\ res = NoCall
    /\ res' = [value |-> is_number(input)]
    /\ UNCHANGED <<op, input>>

CallIsInt ==
    /\ op = "is_int" /\ res = NoCall
    /\ res' = [value |-> is_int(input)]
    /\ UNCHANGED <<op, input>>

CallIsSignedInt ==
    /\ op = "is_signed_int" /\ res = NoCall
    /\ res' = [value |-> is_signed_int(input)]
    /\ UNCHANGED <<op, input>>

CallIsUnsignedInt ==
    /\ op = "is_unsigned_int" /\ res = NoCall
    /\ res' = [value |-> is_unsigned_int(input)]
    /\ UNCHANGED <<op, input>>

CallIsFloat ==
    /\ op = "is_float" /\ res = NoCall
    /\ res' = [value |-> is_float(input)]
    /\ UNCHANGED <<op, input>>

NumberSpecInit ==
    NumberInit /\ res = NoCall /\ DriverInit(NoProgram) /\ NoImports /\ NoImpls /\ NoFrontEnd
NumberNext ==
    \/ CallIsNumber /\ UNCHANGED passVars
    \/ CallIsInt /\ UNCHANGED passVars
    \/ CallIsSignedInt /\ UNCHANGED passVars
    \/ CallIsUnsignedInt /\ UNCHANGED passVars
    \/ CallIsFloat /\ UNCHANGED passVars
NumberSpec == NumberSpecInit /\ [][NumberNext]_vars

ConcreteNumberTags ==
    {"I8", "I16", "I32", "I64", "U8", "U16", "U32", "U64", "F32", "F64"}
NumberMarkers == {"Number", "Integer", "SignedInt", "UnsignedInt", "Float"}

\* the types the claim calls numbers
IsNumberType(t) ==
    \/ t.tag \in ConcreteNumberTags
    \/ /\ t.tag = "Variable"
       /\ t.var.bound.kind = "Bound"
       /\ t.var.bound.marker \in NumberMarkers

\* C24: is_number(t) is true exactly for the concrete integer and float types
\* and the variables whose marker bound is Number, Integer, SignedInt,
\* UnsignedInt or Float, and false for every other type, Bool included.
C24_IsNumberExact ==
    Called("is_number") => (res.value = IsNumberType(input))

(***************************************************************************)
(* The rounds of one drain_mod_imports run: which module each round takes  *)
(* out of the list and which modules the filter can search meanwhile.      *)
(***************************************************************************)
ModulePathsOf(mods) == {mods[k].path : k \in 1..Len(mods)}

RECURSIVE drain_visits(_, _, _, _)
drain_visits(pass, mods, i, last) ==
    IF i > last THEN <<>>
    ELSE LET j == IF i = Len(mods) THEN 0 ELSE i
             r == swap_remove(mods, j + 1)
             done == drain_filter(pass, r.rest, r.removed, <<>>, 1)
         IN <<[visited |-> r.removed.path, searched |-> ModulePathsOf(r.rest)]>>
                \o drain_visits(pass, Append(r.rest, done), i + 1, last)

\* the rounds of the class import stage on the program as it was given
ClassImportVisits == drain_visits("class_imports", input, 0, Len(input))

VisitCount(visits, path) ==
    Cardinality({k \in 1..Len(visits) : visits[k].visited = path})

ClassImportsRan == op = "imports" /\ import_stage = "function_imports"

\* C27: one run of an import stage applies the filter to the pending imports
\* of every module exactly once, the module being processed is absent from
\* the list the filter searches, and the list holds the same set of modules
\* afterwards.
C27_EveryModuleVisitedOnce ==
    ClassImportsRan =>
        /\ \A p \in ModulePathsOf(input) : VisitCount(ClassImportVisits, p) = 1
        /\ \A k \in 1..Len(ClassImportVisits) :
               ClassImportVisits[k].visited \notin ClassImportVisits[k].searched
        /\ ModulePathsOf(modules) = ModulePathsOf(input)

(***************************************************************************)
(* FillClassPass: fills the classes of a module with their members.        *)
(* A class of the AST has a name, an optional superclass name and its      *)
(* member variables; the builder holds the classes declared by the         *)
(* declaring pass, empty until they are filled.  The order of the          *)
(* inherited entries of member_order follows the iteration of a HashMap    *)
(* and is left out; members keeps every member with its index.             *)
(***************************************************************************)
MaxClasses == 3

ASTClass(name, superclass, variables) ==
    [name |-> name, superclass |-> superclass, variables |-> variables]

\* declare_class_pass: an empty class with its methods under every name
MethodNames == {"m"}
DeclaredClass(name) ==
    [name |-> name, members |-> {}, methods |-> MethodNames,
     superclass |-> NoneOpt, init |-> <<>>]
DeclareClasses(list) ==
    [n \in {list[k].name : k \in 1..Len(list)} |-> DeclaredClass(n)]

\* MIRBuilder::find_class on the classes of the module
builder_classes_get(builder, name) ==
    IF name \in DOMAIN builder THEN Some(builder[name]) ELSE NoneOpt

MIRClassMember(name, index) == [name |-> name, index |-> index]

\* the loop of build_class_init over class.variables from position k: flds
\* maps the names seen so far to their members, insts is the body of the
\* internal init function
RECURSIVE build_class_init_fields(_, _, _, _, _)
build_class_init_fields(variables, k, offset, flds, insts) ==
    IF k > Len(variables) THEN [ok |-> TRUE, flds |-> flds, insts |-> insts]
    ELSE LET i == k - 1
             member == MIRClassMember(variables[k], i + offset)
             existing_entry == variables[k] \in {m.name : m \in flds}
             inserted == {m \in flds : m.name # variables[k]} \cup {member}
         IN IF existing_entry
            THEN [ok |-> FALSE, flds |-> inserted, insts |-> insts,
                  error |-> "Class member cannot be defined twice"]
            ELSE build_class_init_fields(variables, k + 1, offset, inserted,
                     Append(insts, [set |-> member.index]))

build_class_init(class, flds) ==
    LET offset == Cardinality(flds)
        r == build_class_init_fields(class.variables, 1, offset, flds, <<>>)
    IN IF ~r.ok THEN r
       ELSE IF class.superclass.some
            THEN [r EXCEPT !.insts = Append(@, [call |-> class.superclass.val])]
            ELSE r

fill_check_duplicate(flds, class_methods) ==
    \A m \in flds : m.name \notin class_methods

\* fill_class: the members of the superclass as they are now, then the
\* class's own
fill_class(builder, class) ==
    LET sclass == IF class.superclass.some
                  THEN builder_classes_get(builder, class.superclass.val)
                  ELSE NoneOpt
    IN IF class.superclass.some /\ ~sclass.some
       THEN [ok |-> FALSE, builder |-> builder, error |-> "Unknown class"]
       ELSE LET inherited == IF sclass.some THEN sclass.val.members ELSE {}
                r == build_class_init(class, inherited)
            IN IF ~r.ok
               THEN [ok |-> FALSE, builder |-> builder, error |-> r.error]
               ELSE IF ~fill_check_duplicate(r.flds, builder[class.name].methods)
               THEN [ok |-> FALSE, builder |-> builder,
                     error |-> "Cannot have class member and method with same name"]
               ELSE [ok |-> TRUE,
                     builder |-> [builder EXCEPT ![class.name] =
                         [@ EXCEPT !.members = r.flds,
                                   !.superclass = class.superclass,
                                   !.init = r.insts]]]

\* list.classes.iter().position(|cls| cls.name.lexeme == super_name.lexeme)
class_position(classes, name) ==
    LET hits == {k \in 1..Len(classes) : classes[k].name = name}
    IN IF hits = {} THEN NoneOpt
       ELSE Some(CHOOSE k \in hits : \A h \in hits : k <= h)

vec_remove(v, i) == SubSeq(v, 1, i - 1) \o SubSeq(v, i + 1, Len(v))

\* the state of FillClassPass::run: the classes left, the classes done, the
\* builder and the names fill_class was called with, in order
RunState(classes, done_classes, builder, filled) ==
    [ok |-> TRUE, classes |-> classes, done_classes |-> done_classes,
     builder |-> builder, filled |-> filled]
RunError(st, msg) == [st EXCEPT !.ok = FALSE] @@ [error |-> msg]

\* self.fill_class(&mut class)?; done_classes.push(class)
fill_and_push(st, class) ==
    LET r == fill_class(st.builder, class)
        called == [st EXCEPT !.filled = Append(@, class.name)]
    IN IF ~r.ok THEN RunError(called, r.error)
       ELSE [called EXCEPT !.builder = r.builder,
                           !.done_classes = Append(@, class)]

\* the inner loop of run: while super_tok.is_some()
RECURSIVE fill_superclasses(_, _)
fill_superclasses(st, super_tok) ==
    IF ~super_tok.some THEN st
    ELSE LET super_name == super_tok.val
             class_index == class_position(st.classes, super_name)
         IN IF class_index.some
            THEN LET superclass == st.classes[class_index.val]
                     removed == [st EXCEPT !.classes = vec_remove(@, class_index.val)]
                     r == fill_and_push(removed, superclass)
                 IN IF ~r.ok THEN r
                    ELSE fill_superclasses(r, superclass.superclass)
            ELSE IF \E k \in 1..Len(st.done_classes) :
                        st.done_classes[k].name = super_name
            THEN st
            ELSE RunError(st, "Unknown class")

\* the outer loop of run: while !list.classes.is_empty()
RECURSIVE fill_classes_loop(_)
fill_classes_loop(st) ==
    IF st.classes = <<>> THEN st
    ELSE LET class == st.classes[Len(st.classes)]
             popped == [st EXCEPT !.classes = SubSeq(@, 1, Len(@) - 1)]
             supers == fill_superclasses(popped, class.superclass)
         IN IF ~supers.ok THEN supers
            ELSE LET r == fill_and_push(supers, class)
                 IN IF ~r.ok THEN r ELSE fill_classes_loop(r)

\* FillClassPass::run: list.classes = done_classes on success
fill_class_pass_run(list) ==
    LET r == fill_classes_loop(RunState(list, <<>>, DeclareClasses(list), <<>>))
    IN IF r.ok THEN [r EXCEPT !.classes = r.done_classes] ELSE r

\* --- the class lists the pass is run on ---
ClassNames == {"A", "B", "C"}
Superclasses == {NoneOpt} \cup {Some(n) : n \in ClassNames}
VariableLists(name) == {<<>>, <<name>>, <<"x">>, <<"m">>, <<name, "x">>}
ASTClasses(name) ==
    {ASTClass(name, s, v) : s \in Superclasses, v \in VariableLists(name)}

\* the lists of up to MaxClasses classes with different names
FillInit ==
    /\ op = "fill_class_pass"
    /\ \E n \in 1..MaxClasses :
         \E names \in {f \in [1..n -> ClassNames] :
                          \A i, j \in 1..n : i # j => f[i] # f[j]} :
           input \in {l \in [1..n -> UNION {ASTClasses(c) : c \in ClassNames}] :
                         \A k \in 1..n : l[k].name = names[k]}

CallFillClassPass ==
    /\ op = "fill_class_pass" /\ res = NoCall
    /\ res' = fill_class_pass_run(input)
    /\ UNCHANGED <<op, input>>

FillSpecInit ==
    FillInit /\ res = NoCall /\ DriverInit(NoProgram) /\ NoImports /\ NoImpls /\ NoFrontEnd
FillNext == CallFillClassPass /\ UNCHANGED passVars
FillSpec == FillSpecInit /\ [][FillNext]_vars

ClassesFilled == op = "fill_class_pass" /\ res # NoCall /\ res.ok

ClassOf(list, name) == list[CHOOSE k \in 1..Len(list) : list[k].name = name]

\* the superclass, its superclass and so on, at most n steps up
RECURSIVE Ancestors(_, _, _)
Ancestors(list, name, n) ==
    LET c == ClassOf(list, name)
    IN IF n = 0 \/ ~c.superclass.some THEN {}
       ELSE IF c.superclass.val \notin {list[k].name : k \in 1..Len(list)} THEN {}
       ELSE {c.superclass.val} \cup Ancestors(list, c.superclass.val, n - 1)

\* no class of the list is its own ancestor
Acyclic(list) ==
    \A k \in 1..Len(list) : list[k].name \notin Ancestors(list, list[k].name, Len(list))

FillIndex(name) == CHOOSE k \in 1..Len(res.filled) : res.filled[k] = name
FillCount(name) == Cardinality({k \in 1..Len(res.filled) : res.filled[k] = name})

ClassMemberNames(name) == {m.name : m \in res.builder[name].members}
OwnIndices(name) ==
    {m.index : m \in {x \in res.builder[name].members :
                          x.name \in SeqRange(ClassOf(input, name).variables)}}
InheritedCount(name) ==
    Cardinality(UNION {SeqRange(ClassOf(input, a).variables) :
                           a \in Ancestors(input, name, Len(input))})

\* C28: FillClassPass::run fills superclasses first, whatever the order of
\* the list and the depth of the chain: a class is filled after all its
\* ancestors, inherits all their members, its own member indices start
\* after them, and every class is filled exactly once.
C28_SuperclassesFilledFirst ==
    ClassesFilled /\ Acyclic(input) =>
        \A k \in 1..Len(input) :
            LET name == input[k].name
            IN /\ FillCount(name) = 1
               /\ \A a \in Ancestors(input, name, Len(input)) :
                      /\ FillIndex(a) < FillIndex(name)
                      /\ ClassMemberNames(a) \subseteq ClassMemberNames(name)
                      /\ SeqRange(ClassOf(input, a).variables)
                             \subseteq ClassMemberNames(name)
               /\ \A i \in OwnIndices(name) : i >= InheritedCount(name)

(***************************************************************************)
(* The recursive descent parser.  A parser holds the tokens not yet read,  *)
(* the current token and the two error flags; a token is its type.  The    *)
(* parsing functions return the parser they leave behind and whether they  *)
(* produced a node (Option), with the kind of expression where the caller  *)
(* reads it.                                                               *)
(***************************************************************************)
MaxTokens == 3

EndOfFile == "EndOfFile"

\* Parser::new: the first token becomes current
NewParser(stream) ==
    [tokens |-> IF stream = <<>> THEN <<>> ELSE Tail(stream),
     current |-> IF stream = <<>> THEN EndOfFile ELSE Head(stream),
     had_error |-> FALSE, waiting_for_sync |-> FALSE]

advance(p) ==
    IF p.tokens # <<>>
    THEN [p EXCEPT !.current = Head(p.tokens), !.tokens = Tail(p.tokens)]
    ELSE [p EXCEPT !.current = EndOfFile]

is_at_end(p) == p.current = EndOfFile

check(p, t_type) == ~is_at_end(p) /\ p.current = t_type

error_at(p) ==
    IF p.waiting_for_sync THEN p
    ELSE [p EXCEPT !.had_error = TRUE, !.waiting_for_sync = TRUE]

error_at_current(p) == error_at(p)

PSome(p, kind) == [p |-> p, some |-> TRUE, kind |-> kind]
PNone(p) == [p |-> p, some |-> FALSE, kind |-> "None"]

match_token(p, t_type) ==
    IF check(p, t_type) THEN PSome(advance(p), "Token") ELSE PNone(p)

match_tokens(p, t_types) ==
    IF \E t \in t_types : check(p, t) THEN PSome(advance(p), "Token") ELSE PNone(p)

consume(p, t_type) ==
    IF check(p, t_type) THEN PSome(advance(p), "Token")
    ELSE PNone(error_at_current(p))

\* the token types of binary_op!, from logic_or down to multiplication
BinaryMatching ==
    <<{"Or"}, {"And"}, {"BangEqual", "EqualEqual"},
      {"Less", "LessEqual", "Greater", "GreaterEqual"}, {"Plus", "Minus"},
      {"Star", "Slash"}>>

\* The functions of the expression grammar call each other in a cycle;
\* expression_rule(rule, p, arg) is the function named by rule run on parser
\* p.  arg is the level for binary_op, and the kind of the expression parsed
\* so far for the loops.  The streams hold no LeftBrace, Return, Take or
\* When, whose functions need check_semi_or_nl and consume_semi_or_nl, and
\* no Int or Float, whose lexeme may fail to parse.
RECURSIVE expression_rule(_, _, _)
expression_rule(rule, p, arg) ==
    CASE rule = "expression" ->
           LET m == match_token(p, "If")
           IN IF m.some THEN expression_rule("if_expression", m.p, 0)
              ELSE expression_rule("assignment", p, 0)
      [] rule = "if_expression" ->
           LET lparen == consume(p, "LeftParen")
               condition == expression_rule("expression", lparen.p, 0)
           IN IF ~condition.some THEN PNone(condition.p)
              ELSE LET rparen == consume(condition.p, "RightParen")
                       then_branch == expression_rule("expression", rparen.p, 0)
                   IN IF ~then_branch.some THEN PNone(then_branch.p)
                      ELSE LET m == match_token(then_branch.p, "Else")
                           IN IF m.some
                              THEN LET else_branch ==
                                           expression_rule("expression", m.p, 0)
                                   IN IF ~else_branch.some THEN PNone(else_branch.p)
                                      ELSE PSome(else_branch.p, "If")
                              ELSE PSome(m.p, "If")
      [] rule = "assignment" ->
           LET target == expression_rule("binary_op", p, 1)
           IN IF ~target.some THEN target
              ELSE LET m == match_token(target.p, "Equal")
                   IN IF m.some
                      THEN LET value == expression_rule("expression", m.p, 0)
                           IN IF ~value.some THEN PNone(value.p)
                              ELSE IF target.kind = "Variable"
                              THEN PSome(value.p, "Assignment")
                              ELSE IF target.kind = "Get" THEN PSome(value.p, "Set")
                              ELSE PNone(error_at_current(value.p))
                      ELSE target
      \* binary_op!(name, next, matching) at level arg; unary follows the last
      [] rule = "binary_op" ->
           IF arg > Len(BinaryMatching) THEN expression_rule("unary", p, 0)
           ELSE LET left == expression_rule("binary_op", p, arg + 1)
                IN IF ~left.some THEN left
                   ELSE expression_rule("binary_op_while", left.p, <<arg, left.kind>>)
      \* the while loop of binary_op! at level arg[1], left of kind arg[2]
      [] rule = "binary_op_while" ->
           LET operator == match_tokens(p, BinaryMatching[arg[1]])
           IN IF ~operator.some THEN PSome(p, arg[2])
              ELSE LET right == expression_rule("binary_op", operator.p, arg[1] + 1)
                   IN IF ~right.some THEN PNone(right.p)
                      ELSE expression_rule("binary_op_while", right.p,
                                           <<arg[1], "Binary">>)
      [] rule = "unary" ->
           LET operator == match_tokens(p, {"Bang", "Minus"})
           IN IF operator.some
              THEN LET right == expression_rule("unary", operator.p, 0)
                   IN IF ~right.some THEN PNone(right.p)
                      ELSE PSome(right.p, "Unary")
              ELSE expression_rule("call", p, 0)
      [] rule = "call" ->
           LET callee == expression_rule("primary", p, 0)
           IN IF ~callee.some THEN callee
              ELSE expression_rule("call_loop", callee.p, callee.kind)
      \* the argument loop of call: an expression, then a comma to go on
      [] rule = "call_arguments" ->
           LET argument == expression_rule("expression", p, 0)
           IN IF ~argument.some THEN PNone(argument.p)
              ELSE LET m == match_token(argument.p, "Comma")
                   IN IF m.some THEN expression_rule("call_arguments", m.p, 0)
                      ELSE PSome(m.p, "Arguments")
      \* the loop of call, the expression so far of kind arg
      [] rule = "call_loop" ->
           LET lparen == match_token(p, "LeftParen")
               dot == match_token(p, "Dot")
           IN IF lparen.some
              THEN LET arguments == IF ~check(lparen.p, "RightParen")
                                    THEN expression_rule("call_arguments", lparen.p, 0)
                                    ELSE PSome(lparen.p, "Arguments")
                   IN IF ~arguments.some THEN PNone(arguments.p)
                      ELSE LET paren == consume(arguments.p, "RightParen")
                           IN IF ~paren.some THEN PNone(paren.p)
                              ELSE expression_rule("call_loop", paren.p, "Call")
              ELSE IF dot.some
              THEN LET property == consume(dot.p, "Identifier")
                   IN IF ~property.some THEN PNone(property.p)
                      ELSE expression_rule("call_loop", property.p, "Get")
              ELSE PSome(p, arg)
      [] rule = "primary" ->
           LET literal == match_tokens(p, {"None", "False", "True"})
               lparen == match_token(p, "LeftParen")
           IN IF literal.some THEN PSome(literal.p, "Literal")
              ELSE IF lparen.some THEN expression_rule("grouping", lparen.p, 0)
              ELSE IF check(p, "Identifier") THEN PSome(advance(p), "Variable")
              ELSE IF check(p, "This") THEN PSome(advance(p), "This")
              ELSE IF check(p, "String") THEN PSome(advance(p), "Literal")
              ELSE PNone(error_at_current(p))
      [] rule = "grouping" ->
           LET inner == expression_rule("expression", p, 0)
           IN IF ~inner.some THEN PNone(inner.p)
              ELSE PSome(consume(inner.p, "RightParen").p, "Grouping")

expression(p) == expression_rule("expression", p, 0)

\* the parameter loop of ex_func_declaration
RECURSIVE ex_func_parameters(_)
ex_func_parameters(p) ==
    LET param_type == consume(p, "Identifier")
    IN IF ~param_type.some THEN PNone(param_type.p)
       ELSE LET param_name == consume(param_type.p, "Identifier")
            IN IF ~param_name.some THEN PNone(param_name.p)
               ELSE LET m == match_token(param_name.p, "Comma")
                    IN IF m.some THEN ex_func_parameters(m.p)
                       ELSE PSome(m.p, "Parameters")

ex_func_declaration(p) ==
    LET fn_name == consume(p, "Identifier")
    IN IF ~fn_name.some THEN PNone(fn_name.p)
       ELSE LET lparen == consume(fn_name.p, "LeftParen")
                parameters == IF ~check(lparen.p, "RightParen")
                              THEN ex_func_parameters(lparen.p)
                              ELSE PSome(lparen.p, "Parameters")
            IN IF ~parameters.some THEN PNone(parameters.p)
               ELSE LET rparen == consume(parameters.p, "RightParen")
                        arrow == match_token(rparen.p, "Arrow")
                    IN IF arrow.some
                       THEN LET return_type == consume(arrow.p, "Identifier")
                            IN IF ~return_type.some THEN PNone(return_type.p)
                               ELSE PSome(return_type.p, "ExternFunction")
                       ELSE PSome(arrow.p, "ExternFunction")

\* the ? operator: a None ends the function, a Some goes on with Rest
AndThen(r, Rest(_)) == IF ~r.some THEN PNone(r.p) ELSE Rest(r.p)

function_body(p) == AndThen(expression(p), LAMBDA q : PSome(q, "Function"))
function(p) == AndThen(ex_func_declaration(p), function_body)

\* The loop of class_declaration.  The streams hold no Var or Val, whose
\* function needs consume_semi_or_nl; the error of the last arm returns.
RECURSIVE class_body(_)
class_body(p) ==
    IF ~(~check(p, "RightBrace") /\ ~is_at_end(p)) THEN PSome(p, "Body")
    ELSE IF match_token(p, "Func").some
    THEN AndThen(function(match_token(p, "Func").p), class_body)
    ELSE PNone(error_at_current(p))

class_declaration_end(p) == PSome(consume(p, "RightBrace").p, "Class")
class_declaration_body(p) ==
    AndThen(class_body(consume(p, "LeftBrace").p), class_declaration_end)
class_declaration(p) ==
    AndThen(consume(p, "Identifier"), class_declaration_body)

\* the loop of enum_declaration
RECURSIVE enum_variants(_)
enum_variants(p) ==
    IF check(p, "RightBrace") THEN PSome(p, "Variants")
    ELSE LET variant == consume(p, "Identifier")
         IN IF ~variant.some THEN PNone(variant.p)
            ELSE LET m == match_token(variant.p, "Comma")
                 IN IF m.some THEN enum_variants(m.p) ELSE PSome(m.p, "Variants")

enum_declaration(p) ==
    LET enum_name == consume(p, "Identifier")
    IN IF ~enum_name.some THEN PNone(enum_name.p)
       ELSE LET lbrace == consume(enum_name.p, "LeftBrace")
                variants == enum_variants(lbrace.p)
            IN IF ~variants.some THEN PNone(variants.p)
               ELSE PSome(consume(variants.p, "RightBrace").p, "Enum")

declaration(p) ==
    LET class == match_token(p, "Class")
        enum == match_token(p, "Enum")
        ex_fn == match_token(p, "ExFn")
        func == match_token(p, "Func")
    IN IF class.some THEN class_declaration(class.p)
       ELSE IF enum.some THEN enum_declaration(enum.p)
       ELSE IF ex_fn.some THEN ex_func_declaration(ex_fn.p)
       ELSE IF func.some THEN function(func.p)
       ELSE PNone(error_at_current(p))

\* the token types at which syncronize returns without advancing
SyncTypes == {"Class", "Error", "Func", "Var", "Val", "For", "If", "Return"}

\* --- the parser as a process: at is the function it is in ---
TokenTypes ==
    {"Class", "Enum", "ExFn", "Func", "Identifier", "LeftParen", "RightParen",
     "RightBrace", "Comma", "Arrow", "Semicolon", "If", "Else", "True", "Plus",
     "Equal", "Dot"}

ParserAt(p, at, statements) == [p |-> p, at |-> at, statements |-> statements]

\* one iteration of the loop of Parser::parse
ParseDeclaration ==
    /\ parser # NoCall /\ parser.at = "parse"
    /\ ~is_at_end(parser.p)
    /\ LET f == declaration(parser.p)
       IN parser' = ParserAt(f.p, "parse",
                            IF f.some THEN parser.statements + 1
                            ELSE parser.statements)
    /\ UNCHANGED <<callVars, importVars, iface_impls, driverVars, node_builder>>

\* Parser::parse leaves its loop and returns the statements
ParseReturn ==
    /\ parser # NoCall /\ parser.at = "parse"
    /\ is_at_end(parser.p)
    /\ parser' = [parser EXCEPT !.at = "done"]
    /\ UNCHANGED <<callVars, importVars, iface_impls, driverVars, node_builder>>

\* Parser::syncronize is entered
SyncronizeEnter ==
    /\ parser # NoCall /\ parser.at = "syncronize"
    /\ parser' = [parser EXCEPT !.p.waiting_for_sync = FALSE, !.at = "syncronize_loop"]
    /\ UNCHANGED <<callVars, importVars, iface_impls, driverVars, node_builder>>

\* one iteration of the loop of Parser::syncronize
SyncronizeLoop ==
    /\ parser # NoCall /\ parser.at = "syncronize_loop"
    /\ ~is_at_end(parser.p)
    /\ IF check(parser.p, "Semicolon")
       THEN parser' = [parser EXCEPT !.p = advance(parser.p), !.at = "done"]
       ELSE IF parser.p.current \in SyncTypes
       THEN parser' = [parser EXCEPT !.at = "done"]
       ELSE parser' = parser
    /\ UNCHANGED <<callVars, importVars, iface_impls, driverVars, node_builder>>

\* Parser::syncronize leaves its loop at the end of the tokens
SyncronizeReturn ==
    /\ parser # NoCall /\ parser.at = "syncronize_loop"
    /\ is_at_end(parser.p)
    /\ parser' = [parser EXCEPT !.p = advance(parser.p), !.at = "done"]
    /\ UNCHANGED <<callVars, importVars, iface_impls, driverVars, node_builder>>

\* a parser over every stream of up to MaxTokens tokens, about to parse or,
\* after an error, about to syncronize
ParseSpecInit ==
    /\ \E n \in 0..MaxTokens : \E stream \in [1..n -> TokenTypes] :
         /\ input = stream
         /\ \/ op = "parse" /\ parser = ParserAt(NewParser(stream), "parse", 0)
            \/ /\ op = "syncronize"
               /\ parser = ParserAt(error_at_current(NewParser(stream)), "syncronize", 0)
    /\ res = NoCall /\ node_builder = NoCall
    /\ DriverInit(NoProgram) /\ NoImports /\ NoImpls

ParseNext ==
    \/ ParseDeclaration
    \/ ParseReturn
    \/ SyncronizeEnter
    \/ SyncronizeLoop
    \/ SyncronizeReturn

ParseSpec == ParseSpecInit /\ [][ParseNext]_vars

\* the parser is a sequential program: it takes its next step when it has one
ParseLiveSpec == ParseSpec /\ WF_vars(ParseNext)

\* C29: Parser::parse terminates on every finite token stream, and so does
\* error recovery (syncronize): the parser started on a stream eventually
\* returns.
C29_ParserTerminates == <>(parser.at = "done")

(***************************************************************************)
(* NodeBuilder: builds the syntax tree from start_node, token, end_node,   *)
(* checkpoint and start_node_at calls.  A range is [start, end); the text  *)
(* of a token is a string and its length the number of its characters.     *)
(***************************************************************************)
MaxItems == 4
MaxCheckpoints == 2

Token(kind, text) == [is_token |-> TRUE, kind |-> kind, text |-> text]
Node(children, kind, start, end) ==
    [is_token |-> FALSE, children |-> children, kind |-> kind,
     range |-> [start |-> start, end |-> end]]

WorkNode(children, kind, start, end) ==
    [children |-> children, kind |-> kind, start |-> start, end |-> end]

into_node(work) == Node(work.children, work.kind, work.start, work.end)

Checkpoint(node, child_count, start) ==
    [node |-> node, child_count |-> child_count, start |-> start]

\* NodeBuilder::new: the root node is open
NewNodeBuilder == <<WorkNode(<<>>, "Root", 0, 0)>>

start_node(nodes, kind) ==
    LET pos == IF nodes # <<>> THEN nodes[Len(nodes)].end ELSE 0
    IN Append(nodes, WorkNode(<<>>, kind, pos, pos))

end_node(nodes) ==
    LET node == nodes[Len(nodes)]
        popped == SubSeq(nodes, 1, Len(nodes) - 1)
    IN [popped EXCEPT ![Len(popped)] =
           [@ EXCEPT !.end = node.end,
                     !.children = Append(@, into_node(node))]]

checkpoint(nodes) ==
    Checkpoint(Len(nodes), Len(nodes[Len(nodes)].children), nodes[Len(nodes)].end)

\* the loop of start_node_at over the drained children from position k
RECURSIVE drained_end(_, _, _, _)
drained_end(drained, k, last_node_end, tokens_end) ==
    IF k > Len(drained) THEN last_node_end + tokens_end
    ELSE IF drained[k].is_token
    THEN drained_end(drained, k + 1, last_node_end,
                     tokens_end + Len(drained[k].text))
    ELSE drained_end(drained, k + 1, drained[k].range.end, 0)

\* start_node_at keeping the token lengths counted before a node
RECURSIVE drained_end_no_reset(_, _, _, _)
drained_end_no_reset(drained, k, last_node_end, tokens_end) ==
    IF k > Len(drained) THEN last_node_end + tokens_end
    ELSE IF drained[k].is_token
    THEN drained_end_no_reset(drained, k + 1, last_node_end,
                              tokens_end + Len(drained[k].text))
    ELSE drained_end_no_reset(drained, k + 1, drained[k].range.end, tokens_end)
start_node_at_no_reset(nodes, kind, loc) ==
    LET parent == nodes[loc.node]
        drained == SubSeq(parent.children, loc.child_count + 1, Len(parent.children))
        end == drained_end_no_reset(drained, 1, loc.start, 0)
        kept == [nodes EXCEPT ![loc.node].children = SubSeq(@, 1, loc.child_count)]
    IN SubSeq(kept, 1, loc.node)
           \o <<WorkNode(drained, kind, loc.start, end)>>
           \o SubSeq(kept, loc.node + 1, Len(kept))
\* nodes[loc.node - 1] of the 0-based vector is the element loc.node here
start_node_at(nodes, kind, loc) ==
    LET parent == nodes[loc.node]
        drained == SubSeq(parent.children, loc.child_count + 1, Len(parent.children))
        end == drained_end(drained, 1, loc.start, 0)
        kept == [nodes EXCEPT ![loc.node].children = SubSeq(@, 1, loc.child_count)]
    IN SubSeq(kept, 1, loc.node)
           \o <<WorkNode(drained, kind, loc.start, end)>>
           \o SubSeq(kept, loc.node + 1, Len(kept))

token(nodes, kind, text) ==
    [nodes EXCEPT ![Len(nodes)] =
        [@ EXCEPT !.end = @ + Len(text),
                  !.children = Append(@, Token(kind, text))]]

finish(nodes) == into_node(nodes[Len(nodes)])

\* --- the builder driven by a parser: node_builder holds the open nodes,
\* the checkpoints the caller still holds, the number of tokens and nodes
\* made, the number of nodes made by start_node_at, and the finished tree ---
NodeKinds == {"Literal", "BinaryExpr"}
TokenTexts == {"a", "bc"}

Building(nodes, held, items, retro, tree) ==
    [nodes |-> nodes, held |-> held, items |-> items, retro |-> retro, tree |-> tree]

IsBuilding == node_builder # NoCall /\ node_builder.tree = NoCall

StartNode ==
    /\ IsBuilding /\ node_builder.items < MaxItems
    /\ \E kind \in NodeKinds :
         node_builder' = [node_builder EXCEPT
                             !.nodes = start_node(@, kind), !.items = @ + 1]
    /\ UNCHANGED <<callVars, importVars, iface_impls, driverVars, parser>>

EmitToken ==
    /\ IsBuilding /\ node_builder.items < MaxItems
    /\ \E text \in TokenTexts :
         node_builder' = [node_builder EXCEPT
                             !.nodes = token(@, "Ident", text), !.items = @ + 1]
    /\ UNCHANGED <<callVars, importVars, iface_impls, driverVars, parser>>

\* a checkpoint is of use while its node is open: ending the node drops it
EndNode ==
    /\ IsBuilding /\ Len(node_builder.nodes) > 1
    /\ node_builder' = [node_builder EXCEPT
                           !.nodes = end_node(@),
                           !.held = {c \in @ : c.node < Len(node_builder.nodes)}]
    /\ UNCHANGED <<callVars, importVars, iface_impls, driverVars, parser>>

TakeCheckpoint ==
    /\ IsBuilding /\ Cardinality(node_builder.held) < MaxCheckpoints
    /\ checkpoint(node_builder.nodes) \notin node_builder.held
    /\ node_builder' = [node_builder EXCEPT
                           !.held = @ \cup {checkpoint(node_builder.nodes)}]
    /\ UNCHANGED <<callVars, importVars, iface_impls, driverVars, parser>>

\* well nested: the checkpoint was taken in the node that is current now;
\* the checkpoints taken after it in that node point into the new node's
\* children and are given up
StartNodeAt ==
    /\ IsBuilding /\ node_builder.items < MaxItems
    /\ \E kind \in NodeKinds, loc \in node_builder.held :
         /\ loc.node = Len(node_builder.nodes)
         /\ node_builder' = [node_builder EXCEPT
                !.nodes = start_node_at(@, kind, loc),
                !.held = {c \in @ : c.node < loc.node
                                    \/ (c.node = loc.node
                                        /\ c.child_count <= loc.child_count)},
                !.items = @ + 1,
                !.retro = @ + 1]
    /\ UNCHANGED <<callVars, importVars, iface_impls, driverVars, parser>>

Finish ==
    /\ IsBuilding /\ Len(node_builder.nodes) = 1
    /\ node_builder' = [node_builder EXCEPT !.tree = finish(node_builder.nodes)]
    /\ UNCHANGED <<callVars, importVars, iface_impls, driverVars, parser>>

BuildSpecInit ==
    /\ op = "build" /\ input = NoCall /\ res = NoCall
    /\ node_builder = Building(NewNodeBuilder, {}, 0, 0, NoCall)
    /\ parser = NoCall
    /\ DriverInit(NoProgram) /\ NoImports /\ NoImpls

BuildNext ==
    \/ StartNode
    \/ EmitToken
    \/ EndNode
    \/ TakeCheckpoint
    \/ StartNodeAt
    \/ Finish

BuildSpec == BuildSpecInit /\ [][BuildNext]_vars

\* the total text length of the tokens of a subtree
RECURSIVE TextLength(_)
TextLength(item) ==
    IF item.is_token THEN Len(item.text)
    ELSE LET RECURSIVE Total(_)
             Total(k) == IF k = 0 THEN 0
                         ELSE Total(k - 1) + TextLength(item.children[k])
         IN Total(Len(item.children))

\* where the k-th child of a node starts when the children before it are
\* laid out from the node's start, and where it ends
ChildStart(node, k) ==
    LET RECURSIVE Before(_)
        Before(j) == IF j = 0 THEN 0
                     ELSE Before(j - 1) + TextLength(node.children[j])
    IN node.range.start + Before(k - 1)
ChildEnd(node, k) == ChildStart(node, k) + TextLength(node.children[k])

\* every range of the subtree is the text it covers: the length of a node's
\* range is its text length, each child node starts where the text before
\* it ends, lies inside its parent and ends where the next child starts
RECURSIVE ConsistentRanges(_)
ConsistentRanges(node) ==
    /\ node.range.end - node.range.start = TextLength(node)
    /\ \A k \in 1..Len(node.children) :
           LET child == node.children[k]
           IN child.is_token
              \/ /\ child.range.start = ChildStart(node, k)
                 /\ child.range.end = ChildEnd(node, k)
                 /\ node.range.start <= child.range.start
                 /\ child.range.end <= node.range.end
                 /\ ConsistentRanges(child)

Finished == node_builder # NoCall /\ node_builder.tree # NoCall

\* C30: for every well-nested sequence of NodeBuilder calls the tree returned
\* by finish has consistent source ranges: a node's range length is the text
\* length of its subtree, a node starts at the end of everything emitted
\* before it, children lie inside their parent and siblings are contiguous
\* and in order, also for nodes made by start_node_at.
C30_RangesConsistent ==
    Finished =>
        /\ node_builder.tree.range.start = 0
        /\ ConsistentRanges(node_builder.tree)

\* a finished tree with a node made by start_node_at around a token and a
\* node that holds text itself
C30_Witness ==
    /\ Finished /\ node_builder.retro > 0
    /\ \E k \in 1..Len(node_builder.tree.children) :
         LET wrapped == node_builder.tree.children[k]
         IN /\ ~wrapped.is_token
            /\ Len(wrapped.children) = 2
            /\ wrapped.children[1].is_token
            /\ ~wrapped.children[2].is_token
            /\ TextLength(wrapped.children[2]) > 0

=============================================================================
